---- MODULE Spec2Model ----
(***************************************************************************)
(* DeeplyTough: dataset preparation and pocket-matching evaluation.        *)
(*                                                                         *)
(* The module models the parts of the repository below, each with its own  *)
(* specification over the same variables:                                  *)
(*   SpecEval     evaluate_matching of Prospeccts and ToughM1              *)
(*   SpecClust    RcsbPdbClusters.get_seqclust and pdb_check_obsolete      *)
(*   SpecResolve  the PDB chain -> UniProt accession lookups               *)
(*   SpecPre      preprocess_once of ToughM1 and Prospeccts                *)
(*   SpecStruct   get_structures of ToughM1 and Prospeccts                 *)
(*   SpecFetch    RcsbPdbClusters._fetch_cluster_file                      *)
(*   SpecVocAp    voc_ap                                                   *)
(* A part that a specification does not run keeps its initial value.       *)
(***************************************************************************)
EXTENDS Integers, Sequences, FiniteSets, TLC

VARIABLES
    pc,              \* position of the running operation
    log,             \* records written through logger / logging, in order
    raised,          \* the exception that left the operation, or NoExc
    \* ---- evaluate_matching
    family,          \* "prospeccts" or "toughm1": whose method runs
    target_dict,     \* code5 -> entry, built from descriptor_entries
    listing,         \* the lines read from the pair listing file(s) so far
    f_pairs,         \* parse_file_list's local list (ToughM1)
    pairs,           \* the retained pairs
    positives,       \* the labels of the retained pairs
    matcher_calls,   \* the argument of every matcher.pair_match call, in order
    scores,          \* what pair_match returned
    positives_clean, \* labels handed to the metric routines
    scores_clean,    \* scores handed to the metric routines
    metric_calls,    \* names of the metric routines called, in order
    results,         \* <<>> until the method returns, then <<the result dict>>
    \* ---- RcsbPdbClusters and pdb_check_obsolete
    clusters,        \* self.clusters: <<CODE, CHAIN>> -> cluster id
    obs_cache,       \* lru_cache of pdb_check_obsolete: code -> cached return value
    gs_call,         \* <<>> or <<the arguments of the last get_seqclust call>>
    gs_ret,          \* <<>> or <<its return value>>
    gs_trace,        \* what the call did: status requests sent, recursion depth
    \* ---- PDB chain -> UniProt accession
    rs_call,         \* <<>> or <<the arguments of the accession lookup made>>
    rs_resp,         \* <<>> or <<what the mappings request gave>>
    rs_ret,          \* <<>> or <<the accession(s) returned>>
    \* ---- preprocess_once
    pp_family,          \* "toughm1", "prospeccts" or "none"
    pp_dbname,          \* Prospeccts: self.dbname
    pp_entries,         \* the arguments executor.map spreads over the workers
    w_done,             \* positions of the arguments whose worker has ended, in the order they ended
    w_out,              \* per argument: <<>>, then <<what executor.map gave for it>>
    pp_next,            \* position of the next result the main loop takes
    code5_to_uniprot,   \* the three dicts the main loop fills
    code5_to_seqclust,
    uniprot_to_code5,
    bundle,             \* pdbcode_mappings.pickle: <<>> or <<the dict dumped>>
    \* ---- get_structures
    st_family,          \* "toughm1", "prospeccts" or "none"
    st_extra_mappings,  \* the argument extra_mappings
    st_lines,           \* the lines of the pocket list (ToughM1) or of the csv (Prospeccts)
    st_mapping,         \* pdbcode_mappings.pickle as found: <<>> or <<the dict>>
    st_entries,         \* <<>> until the call returns, then <<the list returned>>
    \* ---- RcsbPdbClusters._fetch_cluster_file
    cf_file,            \* bc-{identity}.out in the cache directory: <<>> or <<its lines>>
    cf_writes,          \* how many times the cache file has been written
    cf_loads,           \* one record per construction: what it found, did and built
    \* ---- voc_ap
    va_rec,             \* the argument rec
    va_prec,            \* the argument prec
    va_run              \* <<>> until voc_ap returns, then <<its arrays and result>>

evalVars == <<family, target_dict, listing, f_pairs, pairs, positives,
              matcher_calls, scores, positives_clean, scores_clean,
              metric_calls, results>>

clustVars == <<clusters, obs_cache, gs_call, gs_ret, gs_trace>>

resolveVars == <<rs_call, rs_resp, rs_ret>>

preVars == <<pp_family, pp_dbname, pp_entries, w_done, w_out, pp_next, code5_to_uniprot,
             code5_to_seqclust, uniprot_to_code5, bundle>>

structVars == <<st_family, st_extra_mappings, st_lines, st_mapping, st_entries>>

fetchVars == <<cf_file, cf_writes, cf_loads>>

vocVars == <<va_rec, va_prec, va_run>>

vars == <<pc, log, raised, evalVars, clustVars, resolveVars, preVars, structVars,
          fetchVars, vocVars>>

\* what an operation of one part leaves alone: the other parts
notEval == <<clustVars, resolveVars, preVars, structVars, fetchVars, vocVars>>

notClust == <<evalVars, resolveVars, preVars, structVars, fetchVars, vocVars>>

notResolve == <<evalVars, clustVars, preVars, structVars, fetchVars, vocVars>>

\* preprocess_once calls get_seqclust: it reads clusters and fills obs_cache
notPre == <<evalVars, resolveVars, gs_call, gs_ret, gs_trace, structVars, fetchVars, vocVars>>

notStruct == <<evalVars, clustVars, resolveVars, preVars, fetchVars, vocVars>>

notFetch == <<evalVars, clustVars, resolveVars, preVars, structVars, vocVars>>

notVoc == <<evalVars, clustVars, resolveVars, preVars, structVars, fetchVars>>

----------------------------------------------------------------------------
(* Bounds of the model *)

\* most lines a pair listing holds (both files together for TOUGH-M1)
MaxLines == 3

\* most lines (clusters) of the cluster definition file
MaxClusterLines == 2

\* most chain mappings listed under one UniProt accession
MaxMappings == 2

\* most structures one preprocess_once call works on
MaxEntries == 2

\* most chains of a downloaded PDB structure
MaxChains == 2

\* most lines of the listing get_structures reads
MaxListLines == 2

\* most RcsbPdbClusters constructions in one behaviour
MaxLoads == 3

\* most points of the recall and precision arrays handed to voc_ap
MaxPoints == 3

----------------------------------------------------------------------------
(* Shared helpers *)

NoExc == [by |-> "none", exc |-> "none"]

Exc(by, exc) == [by |-> by, exc |-> exc]

LogRec(level, event, arg) == [level |-> level, event |-> event, arg |-> arg]

\* the log records of one event
LogOf(event) == SelectSeq(log, LAMBDA e : e.event = event)

Range(s) == {s[i] : i \in DOMAIN s}

RECURSIVE Repeat(_, _)
Repeat(v, n) == IF n = 0 THEN <<>> ELSE <<v>> \o Repeat(v, n - 1)

----------------------------------------------------------------------------
(* evaluate_matching: inputs *)

\* code5 identifiers that occur in listings
Ids == {"1abcA", "2xyzB"}

\* third csv column of a ProSPECCTs listing
Cls == {"active", "inactive"}

Entry(id) == [code5 |-> id]

Line(file, id1, id2, cls) == [file |-> file, id1 |-> id1, id2 |-> id2, cls |-> cls]

\* matcher scores: the floats 0.1 and 0.8 (val is the score times ten) and a
\* score that is not finite.  np.isfinite is False for NaN, +Inf and -Inf
\* alike and the code reads a score in no other way, so NaN stands for the three.
Fin(v) == [kind |-> "finite", val |-> v]
NaN == [kind |-> "nan", val |-> 0]
ScoreVals == {Fin(1), Fin(8), NaN}

----------------------------------------------------------------------------
(* evaluate_matching: pair building *)

\* a variant of Resolves that also drops a pocket paired with itself
ResolvesDistinct(td, id1, id2) == id1 \in DOMAIN td /\ id2 \in DOMAIN td /\ id1 # id2

\* `id1 in target_dict and id2 in target_dict`
Resolves(td, id1, id2) == id1 \in DOMAIN td /\ id2 \in DOMAIN td

\* `cls == 'active'`
IsActive(cls) == cls = "active"

\* Prospeccts: one iteration of `for line in f.readlines()`
P_ReadLine ==
    /\ pc = "p_read"
    /\ Len(listing) < MaxLines
    /\ \E id1 \in Ids, id2 \in Ids, cls \in Cls :
         /\ listing' = Append(listing, Line("csv", id1, id2, cls))
         /\ IF Resolves(target_dict, id1, id2)
            THEN /\ pairs' = Append(pairs, <<target_dict[id1], target_dict[id2]>>)
                 /\ positives' = Append(positives, IsActive(cls))
                 /\ log' = log
            ELSE /\ log' = Append(log, LogRec("warning", "Detection entry missing", <<id1, id2>>))
                 /\ UNCHANGED <<pairs, positives>>
    /\ UNCHANGED <<pc, raised, family, target_dict, f_pairs, matcher_calls, scores,
                   positives_clean, scores_clean, metric_calls, results>>
    /\ UNCHANGED notEval

\* Prospeccts: the listing is exhausted, the `with` block is left
P_EndOfFile ==
    /\ pc = "p_read"
    /\ pc' = "match"
    /\ UNCHANGED <<log, raised, evalVars>>
    /\ UNCHANGED notEval

\* ToughM1.parse_file_list: one iteration of `for line in f.readlines()`
T_ReadLine ==
    /\ pc \in {"t_read_pos", "t_read_neg"}
    /\ Len(listing) < MaxLines
    /\ \E id1 \in Ids, id2 \in Ids :
         /\ listing' = Append(listing, Line(IF pc = "t_read_pos" THEN "pos" ELSE "neg", id1, id2, "-"))
         /\ f_pairs' = IF Resolves(target_dict, id1, id2)
                       THEN Append(f_pairs, <<target_dict[id1], target_dict[id2]>>)
                       ELSE f_pairs
    /\ UNCHANGED <<pc, log, raised, family, target_dict, pairs, positives, matcher_calls,
                   scores, positives_clean, scores_clean, metric_calls, results>>
    /\ UNCHANGED notEval

\* ToughM1: parse_file_list returns; pairs and positives are extended
T_EndOfFile ==
    /\ pc \in {"t_read_pos", "t_read_neg"}
    /\ pairs' = pairs \o f_pairs
    /\ positives' = positives \o Repeat(pc = "t_read_pos", Len(f_pairs))
    /\ f_pairs' = <<>>
    /\ pc' = IF pc = "t_read_pos" THEN "t_read_neg" ELSE "match"
    /\ UNCHANGED <<log, raised, family, target_dict, listing, matcher_calls, scores,
                   positives_clean, scores_clean, metric_calls, results>>
    /\ UNCHANGED notEval

----------------------------------------------------------------------------
(* Floating-point values, voc_ap and precision_recall_curve *)

Abs(n) == IF n < 0 THEN 0 - n ELSE n

RECURSIVE Gcd(_, _)
Gcd(a, b) == IF b = 0 THEN a ELSE Gcd(b, a % b)

\* A float the metrics work with: NaN, or the fraction num/den in lowest terms
FNaN == [nan |-> TRUE, num |-> 0, den |-> 1]

FNum(n, d) ==
    LET g == Gcd(Abs(n), d)
    IN  [nan |-> FALSE, num |-> n \div g, den |-> d \div g]

\* numpy's a / b on counts: 0 / 0 is NaN
FDiv(a, b) == IF b = 0 THEN FNaN ELSE FNum(a, b)

FAdd(a, b) ==
    IF a.nan \/ b.nan THEN FNaN ELSE FNum(a.num * b.den + b.num * a.den, a.den * b.den)

FSub(a, b) ==
    IF a.nan \/ b.nan THEN FNaN ELSE FNum(a.num * b.den - b.num * a.den, a.den * b.den)

FMul(a, b) == IF a.nan \/ b.nan THEN FNaN ELSE FNum(a.num * b.num, a.den * b.den)

\* a <= b on two numbers
FLeq(a, b) == a.num * b.den <= b.num * a.den

\* np.maximum: NaN if either is NaN
FMaximum(a, b) == IF a.nan \/ b.nan THEN FNaN ELSE IF FLeq(a, b) THEN b ELSE a

\* a != b: true whenever one of them is NaN
FNeq(a, b) == a.nan \/ b.nan \/ a # b

\* s[::-1]
Reverse(s) == [k \in 1..Len(s) |-> s[Len(s) + 1 - k]]

\* a variant of EnvelopeStep that keeps the precision as it is
EnvelopeStepKeep(a, b) == a

\* `np.maximum(mpre[i - 1], mpre[i])`
EnvelopeStep(a, b) == FMaximum(a, b)

\* `for i in range(mpre.size - 1, 0, -1): mpre[i - 1] = np.maximum(mpre[i - 1], mpre[i])`
\* from the 1-based position j down
RECURSIVE EnvelopeLoop(_, _)
EnvelopeLoop(mpre, j) ==
    IF j < 2 THEN mpre
    ELSE EnvelopeLoop([mpre EXCEPT ![j - 1] = EnvelopeStep(mpre[j - 1], mpre[j])], j - 1)

\* np.sum of the terms at the positions of idx
RECURSIVE SumTerms(_, _, _)
SumTerms(mrec, mpre, idx) ==
    IF idx = {} THEN FNum(0, 1)
    ELSE LET i == CHOOSE x \in idx : \A y \in idx : x <= y
         IN  FAdd(FMul(FSub(mrec[i + 1], mrec[i]), mpre[i + 1]),
                  SumTerms(mrec, mpre, idx \ {i}))

\* voc_ap(rec, prec) with its intermediate arrays; positions are 1-based, so
\* idx holds i + 1 for every i of `np.where(mrec[1:] != mrec[:-1])[0]`
VocApRun(rec, prec) ==
    LET mrec == <<FNum(0, 1)>> \o rec \o <<FNum(1, 1)>>
        mpre0 == <<FNum(0, 1)>> \o prec \o <<FNum(0, 1)>>
        mpre == EnvelopeLoop(mpre0, Len(mpre0))
        idx == {i \in 1..(Len(mrec) - 1) : FNeq(mrec[i + 1], mrec[i])}
    IN  [mrec |-> mrec, mpre0 |-> mpre0, mpre |-> mpre, idx |-> idx,
         ap |-> SumTerms(mrec, mpre, idx)]

voc_ap(rec, prec) == VocApRun(rec, prec).ap

\* the distinct values of a set of integers, largest first
RECURSIVE SortDesc(_)
SortDesc(S) ==
    IF S = {} THEN <<>>
    ELSE LET m == CHOOSE x \in S : \A y \in S : y <= x
         IN  <<m>> \o SortDesc(S \ {m})

\* sklearn's _binary_clf_curve: at each distinct score, largest first, the
\* numbers of positives and of negatives scored at least that high
BinaryClfCurve(y, s) ==
    LET th == SortDesc({s[i].val : i \in DOMAIN s})
    IN  [tps |-> [k \in 1..Len(th) |-> Cardinality({i \in DOMAIN s : y[i] /\ s[i].val >= th[k]})],
         fps |-> [k \in 1..Len(th) |-> Cardinality({i \in DOMAIN s : ~y[i] /\ s[i].val >= th[k]})],
         thresholds |-> th]

\* The releases of scikit-learn differ in precision_recall_curve: before 1.1
\* the curve stops at the first threshold of full recall and recall is
\* tps / tps[-1] even when that is 0 / 0; from 1.1 on the curve keeps every
\* threshold and recall is set to one when there is no positive.
SklearnReleases == {"truncating", "full"}

\* precision_recall_curve(y, s) of one release, on non-empty input
PrecisionRecallCurve(y, s, release) ==
    LET c == BinaryClfCurve(y, s)
        K == Len(c.thresholds)
        total == c.tps[K]
        precision == [k \in 1..K |-> FNum(c.tps[k], c.tps[k] + c.fps[k])]
        recall == [k \in 1..K |->
                     IF total = 0 /\ release = "full" THEN FNum(1, 1)
                     ELSE FDiv(c.tps[k], total)]
        last == IF release = "full" THEN K
                ELSE CHOOSE k \in 1..K : c.tps[k] = total /\ \A j \in 1..(k - 1) : c.tps[j] < total
        sl(a) == [k \in 1..last |-> a[last + 1 - k]]
    IN  [precision |-> Append(sl(precision), FNum(1, 1)),
         recall |-> Append(sl(recall), FNum(0, 1)),
         thresholds |-> sl(c.thresholds)]

\* a variant of ApValue that hands the curve to voc_ap without reversing it
ApValueUnreversed(y, s, release) ==
    LET c == PrecisionRecallCurve(y, s, release)
    IN  voc_ap(c.recall, c.precision)

\* `ap = voc_ap(recall[::-1], precision[::-1])`
ApValue(y, s, release) ==
    LET c == PrecisionRecallCurve(y, s, release)
    IN  voc_ap(Reverse(c.recall), Reverse(c.precision))

----------------------------------------------------------------------------
(* evaluate_matching: filtering of the scores and the metrics *)

\* np.isfinite: false for NaN, +Inf and -Inf
IsFinite(s) == s.kind = "finite"

RECURSIVE FlatNonzeroFinite(_, _)
FlatNonzeroFinite(sc, n) ==
    IF n = 0 THEN <<>>
    ELSE FlatNonzeroFinite(sc, n - 1) \o (IF IsFinite(sc[n]) THEN <<n>> ELSE <<>>)

\* `np.flatnonzero(np.isfinite(np.array(scores)))`: ascending positions
GoodIdx(sc) == FlatNonzeroFinite(sc, Len(sc))

\* `np.array(a)[goodidx]`
TakeIdx(a, idx) == [k \in 1..Len(idx) |-> a[idx[k]]]

\* the count of the warning `Ignoring {len(scores) - len(goodidx)} pairs`
NumIgnored(sc) == Len(sc) - Len(GoodIdx(sc))

\* a variant of CleanOf that forgets to apply goodidx
CleanOfUnfiltered(a, sc) == a

\* the two branches after `if len(goodidx) != len(scores)`
CleanOf(a, sc) == IF Len(GoodIdx(sc)) # Len(sc) THEN TakeIdx(a, GoodIdx(sc)) ELSE a

IgnoreLog(lg, sc) ==
    IF Len(GoodIdx(sc)) # Len(sc)
    THEN Append(lg, LogRec("warning", "Ignoring pairs", NumIgnored(sc)))
    ELSE lg

MetricCall(fn, y, s) == [fn |-> fn, y_true |-> y, y_score |-> s]

AucNaN == [nan |-> TRUE, num |-> 0, den |-> 1]

\* sklearn's roc_auc_score on labels of both classes, as the fraction num/den:
\* the share of (positive, negative) pairs ranked correctly, ties counting half
RocAucValue(y, s) ==
    LET P == {i \in DOMAIN y : y[i]}
        N == {i \in DOMAIN y : ~y[i]}
        conc == Cardinality({pn \in P \X N : s[pn[1]].val > s[pn[2]].val})
        ties == Cardinality({pn \in P \X N : s[pn[1]].val = s[pn[2]].val})
    IN  [nan |-> FALSE, num |-> 2 * conc + ties, den |-> 2 * Cardinality(P) * Cardinality(N)]

OneClass(y) == Cardinality(Range(y)) < 2

\* The statements under `# Calculate metrics` on (y, s): every way they can run.
\* roc_curve raises ValueError on empty input.  On labels of one class
\* roc_curve only warns, and roc_auc_score raises ValueError or, in later
\* scikit-learn releases (which keep every threshold of the precision-recall
\* curve), warns and returns NaN.
MetricRuns(y, s) ==
    LET c1 == <<MetricCall("roc_curve", y, s)>>
        c2 == Append(c1, MetricCall("roc_auc_score", y, s))
        c4 == c2 \o <<MetricCall("precision_recall_curve", y, s), MetricCall("voc_ap", y, s)>>
    IN  IF Len(y) = 0
        THEN {[calls |-> c1, raised |-> Exc("roc_curve", "ValueError"), auc |-> AucNaN,
               ap |-> FNaN]}
        ELSE IF OneClass(y)
        THEN {[calls |-> c2, raised |-> Exc("roc_auc_score", "ValueError"), auc |-> AucNaN,
               ap |-> FNaN],
              [calls |-> c4, raised |-> NoExc, auc |-> AucNaN, ap |-> ApValue(y, s, "full")]}
        ELSE {[calls |-> c4, raised |-> NoExc, auc |-> RocAucValue(y, s),
               ap |-> ApValue(y, s, release)] : release \in SklearnReleases}

\* the filtered arrays evaluate_matching can hand to the metrics
CleanInputs ==
    UNION {[1..n -> BOOLEAN] \X [1..n -> {v \in ScoreVals : IsFinite(v)}] : n \in 0..MaxLines}

\* MetricRuns as a table over every input (@@ with the empty function makes
\* the table explicit, so each entry is worked out once)
MetricRunsOf == [ys \in CleanInputs |-> MetricRuns(ys[1], ys[2])] @@ <<>>

\* the ways the metrics run on (y, s), from the table where it has them
MetricRunsFor(y, s) ==
    IF <<y, s>> \in DOMAIN MetricRunsOf THEN MetricRunsOf[<<y, s>>] ELSE MetricRuns(y, s)

\* a variant of ResultDict that echoes the filtered arrays
ResultDictClean(auc, ap, prs, sc, pos) ==
    [auc |-> auc, ap |-> ap, pairs |-> CleanOf(prs, sc), scores |-> CleanOf(sc, sc),
     pos_mask |-> CleanOf(pos, sc)]

\* the `results` dict (the curve arrays are those of the metric calls recorded
\* in metric_calls)
ResultDict(auc, ap, prs, sc, pos) ==
    [auc |-> auc, ap |-> ap, pairs |-> prs, scores |-> sc, pos_mask |-> pos]

\* `scores = matcher.pair_match(pairs)`: one score per pair, in order
MatcherScores(prs) == [1..Len(prs) -> ScoreVals]

\* a variant of MatcherArgs that scores every pair with a call of its own
MatcherArgsPerPair(prs, sc) == [i \in 1..Len(prs) |-> <<prs[i]>>]

\* the arguments of the matcher calls made from `scores = ...` to the return
MatcherArgs(prs, sc) == <<prs>>

\* from `scores = matcher.pair_match(pairs)` to `return results`
Evaluate ==
    /\ pc = "match"
    /\ \E sc \in MatcherScores(pairs) :
         /\ matcher_calls' = matcher_calls \o MatcherArgs(pairs, sc)
         /\ scores' = sc
         /\ positives_clean' = CleanOf(positives, sc)
         /\ scores_clean' = CleanOf(sc, sc)
         /\ log' = IgnoreLog(log, sc)
         /\ \E run \in MetricRunsFor(CleanOf(positives, sc), CleanOf(sc, sc)) :
              /\ metric_calls' = run.calls
              /\ raised' = run.raised
              /\ results' = IF run.raised = NoExc
                            THEN <<ResultDict(run.auc, run.ap, pairs, sc, positives)>>
                            ELSE <<>>
    /\ pc' = "done"
    /\ UNCHANGED <<family, target_dict, listing, f_pairs, pairs, positives>>
    /\ UNCHANGED notEval

----------------------------------------------------------------------------
(* RcsbPdbClusters: the index, pdb_check_obsolete and get_seqclust *)

\* pdb codes and chain ids given to get_seqclust and returned as superseding ids
PdbCodes == {"1abc", "2xyz"}

ChainIds == {"a", "B"}

\* str.upper on the strings of the model
Upper(s) ==
    CASE s = "1abc" -> "1ABC"
      [] s = "2xyz" -> "2XYZ"
      [] s = "a" -> "A"
      [] s = "b" -> "B"
      [] s = "None" -> "NONE"
      [] OTHER -> s

\* f"{pdbCode.upper()}_{chainId.upper()}"
QueryStr(pdbCode, chainId) == <<Upper(pdbCode), Upper(chainId)>>

\* the identifiers CODE_CHAIN that occur in cluster definition files
ClusterKeys == {QueryStr(c, ch) : c \in PdbCodes, ch \in ChainIds}

\* cluster definition files: each line the identifiers of one cluster
ClusterFileLines == (SUBSET ClusterKeys) \ {{}}

ClusterFiles == UNION {[1..n -> ClusterFileLines] : n \in 0..MaxClusterLines}

\* `for n, line in enumerate(...): for id in line.split(): self.clusters[id] = n`
\* (n counts from 0; a later line overwrites an earlier one)
LoadClusters(lines) ==
    LET ks == UNION Range(lines)
        last(k) == CHOOSE i \in DOMAIN lines :
                     /\ k \in lines[i]
                     /\ \A j \in DOMAIN lines : k \in lines[j] => j <= i
    IN  [k \in ks |-> last(k) - 1]

\* values of `seqclust`: a cluster id, or the string 'None'
ClusterId(n) == [none |-> FALSE, id |-> n]
NoneStr == [none |-> TRUE, id |-> 0]

\* `self.clusters.get(query_str, 'None')`
ClustersGet(cl, q) == IF q \in DOMAIN cl THEN ClusterId(cl[q]) ELSE NoneStr

\* What the status request of pdb_check_obsolete can give:
\*   error     requests.get or .json() raises
\*   no_entry  a JSON document without the key pdb_code
\*   entry     r[pdb_code][0] with its status_code and superceded_by list
ObsResponse(shape, status, sup) == [shape |-> shape, status |-> status, superceded_by |-> sup]

ObsResponses ==
    {ObsResponse("error", "-", <<>>), ObsResponse("no_entry", "-", <<>>)}
    \cup {ObsResponse("entry", st, sup) :
              st \in {"REL", "OBS"}, sup \in {<<>>} \cup {<<c>> : c \in PdbCodes}}

\* Python's None is <<>>, a pdb code c is <<c>>
PyNone == <<>>

ObsOutcome(ret, exc, lg, cache, reqs) ==
    [ret |-> ret, raised |-> exc, log |-> lg, cache |-> cache, requests |-> reqs]

\* pdb_check_obsolete(pdb_code) under @lru_cache(): a cached code is answered
\* without a request; a return value is cached, an exception is not
PdbCheckObsolete(cache, pdb_code, resp) ==
    IF pdb_code \in DOMAIN cache
    THEN ObsOutcome(cache[pdb_code], NoExc, <<>>, cache, <<>>)
    ELSE IF resp.shape = "error"
    THEN ObsOutcome(PyNone, NoExc,
                    <<LogRec("info", "Could not check obsolete status", pdb_code)>>,
                    cache @@ (pdb_code :> PyNone), <<pdb_code>>)
    ELSE IF resp.shape = "no_entry"
    THEN ObsOutcome(PyNone, Exc("pdb_check_obsolete", "KeyError"), <<>>, cache, <<pdb_code>>)
    ELSE IF resp.status = "OBS"
    THEN IF resp.superceded_by = <<>>
         THEN ObsOutcome(PyNone, Exc("pdb_check_obsolete", "IndexError"), <<>>, cache, <<pdb_code>>)
         ELSE ObsOutcome(<<resp.superceded_by[1]>>, NoExc, <<>>,
                         cache @@ (pdb_code :> <<resp.superceded_by[1]>>), <<pdb_code>>)
    ELSE ObsOutcome(PyNone, NoExc, <<>>, cache @@ (pdb_code :> PyNone), <<pdb_code>>)

SeqclustOutcome(ret, exc, lg, cache, reqs, checks, depth) ==
    [ret |-> ret, raised |-> exc, log |-> lg, cache |-> cache,
     requests |-> reqs, checks |-> checks, depth |-> depth]

\* a variant of RedirectArgs that asks for the other chain of the superseding entry
RedirectArgsOtherChain(superceded, chainId) ==
    [pdbCode |-> superceded, chainId |-> IF Upper(chainId) = "A" THEN "B" ELSE "a",
     check_obsolete |-> FALSE]

\* the arguments of `self.get_seqclust(superceded, chainId, check_obsolete=False)`
RedirectArgs(superceded, chainId) ==
    [pdbCode |-> superceded, chainId |-> chainId, check_obsolete |-> FALSE]

\* get_seqclust(pdbCode, chainId, check_obsolete) at recursion depth `depth`;
\* resp is what a status request would give
RECURSIVE GetSeqclustRun(_, _, _, _, _, _, _)
GetSeqclustRun(cl, cache, pdbCode, chainId, check_obsolete, resp, depth) ==
    LET seqclust == ClustersGet(cl, QueryStr(pdbCode, chainId))
        unable == IF seqclust = NoneStr
                  THEN <<LogRec("info", "unable to assign cluster", <<pdbCode, chainId>>)>>
                  ELSE <<>>
    IN  IF check_obsolete /\ seqclust = NoneStr
        THEN LET o == PdbCheckObsolete(cache, pdbCode, resp)
             IN  IF o.raised # NoExc
                 THEN SeqclustOutcome(<<>>, o.raised, o.log, o.cache, o.requests, <<pdbCode>>, depth)
                 ELSE IF o.ret # PyNone
                 THEN LET a == RedirectArgs(o.ret[1], chainId)
                          r == GetSeqclustRun(cl, o.cache, a.pdbCode, a.chainId, a.check_obsolete,
                                              resp, depth + 1)
                      IN  SeqclustOutcome(r.ret, r.raised,
                              o.log \o <<LogRec("info", "Assigning cluster for obsolete entry", <<pdbCode, o.ret[1], chainId>>)>> \o r.log,
                              r.cache, o.requests \o r.requests, <<pdbCode>> \o r.checks, r.depth)
                 ELSE SeqclustOutcome(<<seqclust>>, NoExc, o.log \o unable, o.cache,
                                      o.requests, <<pdbCode>>, depth)
        ELSE SeqclustOutcome(<<seqclust>>, NoExc, unable, cache, <<>>, <<>>, depth)

\* one top-level call clusterer.get_seqclust(pdbCode, chainId, check_obsolete)
GetSeqclust ==
    \E pdbCode \in PdbCodes, chainId \in ChainIds, check_obsolete \in BOOLEAN,
       resp \in ObsResponses :
        LET r == GetSeqclustRun(clusters, obs_cache, pdbCode, chainId, check_obsolete, resp, 0)
        IN  /\ gs_call' = <<[pdbCode |-> pdbCode, chainId |-> chainId, check_obsolete |-> check_obsolete]>>
            /\ gs_ret' = r.ret
            /\ raised' = r.raised
            /\ log' = r.log
            /\ obs_cache' = r.cache
            /\ gs_trace' = [requests |-> r.requests, checks |-> r.checks, depth |-> r.depth]
            /\ pc' = IF r.raised = NoExc THEN "returned" ELSE "raised"
            /\ UNCHANGED clusters
            /\ UNCHANGED notClust

----------------------------------------------------------------------------
(* PDB chain -> UniProt accession: ToughM1's pdb_chain_to_uniprot and the   *)
(* second half of Prospeccts._extract_pocket_and_get_uniprot                *)

\* UniProt accessions (the keys of the 'UniProt' dict of a mappings answer)
FamIds == {"P12345", "Q67890"}

\* chain ids that occur in mappings
MapChains == {"A", "B"}

\* one element of fam[fam_id]['mappings']; it may lack the key 'chain_id'
ChainDict(has, id) == [has_chain_id |-> has, chain_id |-> id]

ChainDicts == {ChainDict(TRUE, c) : c \in MapChains} \cup {ChainDict(FALSE, "")}

MappingLists == UNION {[1..n -> ChainDicts] : n \in 0..MaxMappings}

FamEntry(id, maps) == [fam_id |-> id, mappings |-> maps]

\* the 'UniProt' dict in its iteration order: its keys are distinct
FamDicts ==
    {fam \in UNION {[1..n -> {FamEntry(f, m) : f \in FamIds, m \in MappingLists}] :
                        n \in 0..Cardinality(FamIds)} :
        \A i, j \in DOMAIN fam : fam[i].fam_id = fam[j].fam_id => i = j}

\* What the mappings request can give:
\*   transport_error  requests.get raises
\*   parse_error      r.json() raises
\*   no_entry         the JSON document lacks [pdb_code]['UniProt']
\*   ok               fam
MapResponse(shape, fam) == [shape |-> shape, fam |-> fam]

MapResponses ==
    {MapResponse(sh, <<>>) : sh \in {"transport_error", "parse_error", "no_entry"}}
    \cup {MapResponse("ok", fam) : fam \in FamDicts}

\* the exception a failed request raises where it happens
MapFailure(resp) ==
    CASE resp.shape = "transport_error" -> Exc("requests.get", "ConnectionError")
      [] resp.shape = "parse_error" -> Exc("r.json", "JSONDecodeError")
      [] resp.shape = "no_entry" -> Exc("r.json()[pdb_code]['UniProt']", "KeyError")
      [] OTHER -> NoExc

\* the (fam_id, chain) pairs in the order of the two nested loops
RECURSIVE FamItems(_)
FamItems(fam) ==
    IF fam = <<>> THEN <<>>
    ELSE [k \in 1..Len(fam[1].mappings) |->
             [fam_id |-> fam[1].fam_id, chain |-> fam[1].mappings[k]]]
         \o FamItems(Tail(fam))

\* accession values: a string (ToughM1, and 'None' in both) or a set (Prospeccts)
AccStr(str) == [kind |-> "str", str |-> str, set |-> {}]
AccSet(set) == [kind |-> "set", str |-> "", set |-> set]

ResolveOutcome(ret, exc, lg) == [ret |-> ret, raised |-> exc, log |-> lg]

\* ToughM1: the body of the inner loop of pdb_chain_to_uniprot on one item;
\* acc = [result, log, raised]
T_ScanStep(acc, item, query_chain_id) ==
    IF acc.raised # NoExc THEN acc
    ELSE IF ~item.chain.has_chain_id
    THEN [acc EXCEPT !.raised = Exc("chain['chain_id']", "KeyError")]
    ELSE IF item.chain.chain_id = query_chain_id
    THEN [result |-> item.fam_id,
          log |-> IF acc.result # "None" /\ item.fam_id # acc.result
                  THEN Append(acc.log, LogRec("warning", "DUPLICATE", <<item.fam_id, acc.result>>))
                  ELSE acc.log,
          raised |-> NoExc]
    ELSE acc

RECURSIVE T_Scan(_, _, _)
T_Scan(acc, items, query_chain_id) ==
    IF items = <<>> THEN acc
    ELSE T_Scan(T_ScanStep(acc, Head(items), query_chain_id), Tail(items), query_chain_id)

\* ToughM1._preprocess_worker.pdb_chain_to_uniprot(pdb_code, query_chain_id)
PdbChainToUniprot(pdb_code, query_chain_id, resp) ==
    IF resp.shape # "ok"
    THEN ResolveOutcome(<<>>, MapFailure(resp), <<>>)
    ELSE LET acc == T_Scan([result |-> "None", log |-> <<>>, raised |-> NoExc],
                           FamItems(resp.fam), query_chain_id)
         IN  IF acc.raised # NoExc
             THEN ResolveOutcome(<<>>, acc.raised, acc.log)
             ELSE ResolveOutcome(<<AccStr(acc.result)>>, NoExc,
                      IF acc.result = "None"
                      THEN Append(acc.log, LogRec("warning", "No uniprot accession found", <<pdb_code, query_chain_id>>))
                      ELSE acc.log)

\* what next(iter(result)) can give for each non-empty set of accessions
FirstChoices == {first \in [(SUBSET FamIds) \ {{}} -> FamIds] :
                    \A S \in DOMAIN first : first[S] \in S}

\* Prospeccts: the body of the inner loop on one item; acc = [result, log, raised]
P_ScanStep(acc, item, query_chain_id, first) ==
    IF acc.raised # NoExc THEN acc
    ELSE IF query_chain_id = ""
    THEN [acc EXCEPT !.result = acc.result \cup {item.fam_id}]
    ELSE IF ~item.chain.has_chain_id
    THEN [acc EXCEPT !.raised = Exc("chain['chain_id']", "KeyError")]
    ELSE IF item.chain.chain_id = query_chain_id
    THEN [result |-> acc.result \cup {item.fam_id},
          log |-> IF acc.result # {} /\ item.fam_id # first[acc.result]
                  THEN Append(acc.log, LogRec("warning", "Duplicate chain", <<item.fam_id, acc.result>>))
                  ELSE acc.log,
          raised |-> NoExc]
    ELSE acc

RECURSIVE P_Scan(_, _, _, _)
P_Scan(acc, items, query_chain_id, first) ==
    IF items = <<>> THEN acc
    ELSE P_Scan(P_ScanStep(acc, Head(items), query_chain_id, first), Tail(items),
                query_chain_id, first)

\* Prospeccts._extract_pocket_and_get_uniprot from `try:` on: the second
\* element of the returned pair
ExtractGetUniprot(pdb_code, query_chain_id, resp, first) ==
    IF resp.shape # "ok"
    THEN ResolveOutcome(<<AccStr("None")>>, NoExc,
             <<LogRec("warning", "PDB not found", <<pdb_code, query_chain_id>>)>>)
    ELSE LET acc == P_Scan([result |-> {}, log |-> <<>>, raised |-> NoExc],
                           FamItems(resp.fam), query_chain_id, first)
         IN  IF acc.raised # NoExc
             THEN ResolveOutcome(<<>>, acc.raised, acc.log)
             ELSE ResolveOutcome(<<AccSet(acc.result)>>, NoExc,
                      IF acc.result = {}
                      THEN Append(acc.log, LogRec("warning", "Chain not found", <<pdb_code, query_chain_id>>))
                      ELSE acc.log)

ResolveDone(fam, pdb_code, query_chain_id, resp, r) ==
    /\ rs_call' = <<[family |-> fam, pdb_code |-> pdb_code, query_chain_id |-> query_chain_id]>>
    /\ rs_resp' = <<resp>>
    /\ rs_ret' = r.ret
    /\ raised' = r.raised
    /\ log' = r.log
    /\ pc' = IF r.raised = NoExc THEN "returned" ELSE "raised"
    /\ UNCHANGED notResolve

\* ToughM1: `uniprot = pdb_chain_to_uniprot(pdb_code.lower(), chain_id)`
T_Resolve ==
    /\ pc = "idle"
    /\ \E pdb_code \in PdbCodes, chain_id \in MapChains, resp \in MapResponses :
         ResolveDone("toughm1", pdb_code, chain_id, resp,
                     PdbChainToUniprot(pdb_code, chain_id, resp))

\* Prospeccts: query_chain_id is fname[4].upper(), or '' for a short file name
P_Resolve ==
    /\ pc = "idle"
    /\ \E pdb_code \in PdbCodes, query_chain_id \in MapChains \cup {""},
          resp \in MapResponses, first \in FirstChoices :
         ResolveDone("prospeccts", pdb_code, query_chain_id, resp,
                     ExtractGetUniprot(pdb_code, query_chain_id, resp, first))

----------------------------------------------------------------------------
(* preprocess_once: the workers *)

\* A string of a pdb code followed by a chain letter (code5, code5new, the
\* base name of a ProSPECCTs file), kept as s[:4] and s[4:]
Str5(code, chain) == [head |-> code, tail |-> chain]

\* 'None'[:4] is 'None' and 'None'[4:5] is ''
NoneStr5 == Str5("None", "")

\* `pdb_code.lower()`, `entry['code'].lower()`
Lower(s) ==
    CASE s = "1ABC" -> "1abc"
      [] s = "2XYZ" -> "2xyz"
      [] OTHER -> s

WorkerRet(ret) == [kind |-> "ret", ret |-> ret, exc |-> NoExc]

WorkerExc(exc) == [kind |-> "exc", ret |-> <<>>, exc |-> exc]

\* a chain of the downloaded structure: its id, whether it has 20 residues
\* or more, and the distance of its centroid to the TOUGH-M1 structure's
ChainRec(id, nres20, dist) == [id |-> id, nres20 |-> nres20, dist |-> dist]

ChainDists == {1, 9}

ChainRecs == {ChainRec(id, b, d) : id \in MapChains, b \in BOOLEAN, d \in ChainDists}

\* positions of the smallest element: np.argmin takes the first of them
ArgMin(dists) ==
    CHOOSE i \in DOMAIN dists :
        /\ \A j \in DOMAIN dists : dists[i] <= dists[j]
        /\ \A j \in DOMAIN dists : dists[j] = dists[i] => i <= j

\* What pdb_chain_to_uniprot returns or raises for each chain id it can be
\* asked about, under one response of the mappings service
UniprotLookup(resp) ==
    [ch \in MapChains |->
        LET u == PdbChainToUniprot("", ch, resp)
        IN  [ret |-> u.ret, raised |-> u.raised]]

UniprotLookups == {UniprotLookup(resp) : resp \in MapResponses}

\* the chains of a downloaded structure, in file order
ChainLists == UNION {[1..n -> ChainRecs] : n \in 0..MaxChains}

\* The loop over the chains and what follows it: np.argmin raises on an empty
\* `dists`, else the nearest chain of 20 residues or more is taken, and it
\* is too far when its distance exceeds 5
ChainChoice(chains) ==
    LET big == SelectSeq(chains, LAMBDA c : c.nres20)
        dists == [k \in 1..Len(big) |-> big[k].dist]
        ids == [k \in 1..Len(big) |-> big[k].id]
    IN  IF Len(big) = 0 THEN [kind |-> "empty", chain_id |-> ""]
        ELSE IF dists[ArgMin(dists)] > 5 THEN [kind |-> "far", chain_id |-> ids[ArgMin(dists)]]
        ELSE [kind |-> "near", chain_id |-> ids[ArgMin(dists)]]

ChainChoices == {ChainChoice(chs) : chs \in ChainLists}

\* What one ToughM1 worker meets outside the program: fpocket2's exit, the
\* obsolete-status response, the download, what the chains of the
\* downloaded structure give, the mappings service
ToughEnv(fpocket, obs, download, choice, lookup) ==
    [fpocket |-> fpocket, obs |-> obs, download |-> download, choice |-> choice,
     lookup |-> lookup]

ToughEnvs ==
    {ToughEnv(fp, obs, dl, ch, lk) :
        fp \in {"ok", "fail"}, obs \in ObsResponses, dl \in {"ok", "fail"},
        ch \in ChainChoices, lk \in UniprotLookups}

\* ToughM1._preprocess_worker(entry), entry['code5'] = code5
PreprocessWorker(code5, env) ==
    IF env.fpocket = "fail"
    THEN WorkerExc(Exc("subprocess.run", "CalledProcessError"))
    ELSE LET o == PdbCheckObsolete(<<>>, code5.head, env.obs)
             pdb_code == IF o.ret # PyNone THEN o.ret[1] ELSE Lower(code5.head)
             chain_id == env.choice.chain_id
         IN  IF o.raised # NoExc THEN WorkerExc(o.raised)
             ELSE IF env.download = "fail" THEN WorkerRet(<<code5, "None", NoneStr5>>)
             ELSE IF env.choice.kind = "empty" THEN WorkerExc(Exc("np.argmin", "ValueError"))
             ELSE IF env.choice.kind = "far" THEN WorkerRet(<<code5, "None", NoneStr5>>)
             ELSE LET u == env.lookup[chain_id]
                  IN  IF u.raised # NoExc THEN WorkerExc(u.raised)
                      ELSE WorkerRet(<<code5, u.ret[1].str, Str5(Lower(pdb_code), chain_id)>>)

\* the code5 identifiers of TOUGH-M1_pocket.list
ToughCode5s == {Str5("1abc", "A"), Str5("2xyz", "B")}

\* every outcome a ToughM1 worker can have on each code5
ToughWorkerOutcomes == [c \in ToughCode5s |-> {PreprocessWorker(c, env) : env \in ToughEnvs}]

\* a .pdb file under prospeccts/: the base name without extension, and
\* whether it contains '_'
PdbFile(fname, underscore) == [fname |-> fname, underscore |-> underscore]

PdbFiles ==
    {PdbFile(Str5("1abc", "A"), FALSE), PdbFile(Str5("2xyz", ""), FALSE),
     PdbFile(Str5("1abc", "_x"), TRUE)}

\* What one Prospeccts worker meets outside the program: the mappings
\* service and the iteration order of `result`
ProspecctsEnvs == {[resp |-> resp, first |-> first] : resp \in MapResponses, first \in FirstChoices}

\* Prospeccts._extract_pocket_and_get_uniprot(pdbpath); the pocket
\* extraction is taken to succeed, and the code of an NMR structure is part
\* of what the mappings service is asked
ExtractPocketAndGetUniprot(pdb, env) ==
    IF pdb.underscore
    THEN WorkerRet(<<PyNone, PyNone>>)
    ELSE LET u == ExtractGetUniprot(Lower(pdb.fname.head), Upper(pdb.fname.tail),
                                    env.resp, env.first)
         IN  IF u.raised # NoExc THEN WorkerExc(u.raised)
             ELSE WorkerRet(<<(<<pdb.fname>>), u.ret[1]>>)

ProspecctsWorkerOutcomes ==
    [f \in PdbFiles |-> {ExtractPocketAndGetUniprot(f, env) : env \in ProspecctsEnvs}]

----------------------------------------------------------------------------
(* preprocess_once: the main process *)

\* a dict is a function on its keys; `d[k] = v`
DictSet(d, k, v) == [x \in (DOMAIN d) \cup {k} |-> IF x = k THEN v ELSE d[x]]

\* `uniprot_to_code5[uniprot]` of a defaultdict(list)
ListGet(d, k) == IF k \in DOMAIN d THEN d[k] ELSE <<>>

\* string.ascii_uppercase
AsciiUppercase == <<"A", "B">>

SeqclustsOutcome(set, exc, lg, cache) == [set |-> set, raised |-> exc, log |-> lg, cache |-> cache]

\* `set([clusterer.get_seqclust(code[:4], c) for c in string.ascii_uppercase])`
\* over the letters still to come
RECURSIVE SeqclustsRun(_, _, _, _, _)
SeqclustsRun(cl, cache, code, letters, resp) ==
    IF letters = <<>> THEN SeqclustsOutcome({}, NoExc, <<>>, cache)
    ELSE LET g == GetSeqclustRun(cl, cache, code, Head(letters), TRUE, resp, 0)
         IN  IF g.raised # NoExc
             THEN SeqclustsOutcome({}, g.raised, g.log, g.cache)
             ELSE LET r == SeqclustsRun(cl, g.cache, code, Tail(letters), resp)
                  IN  SeqclustsOutcome({g.ret[1]} \cup r.set, r.raised, g.log \o r.log, r.cache)

\* the `unclustered` message of ToughM1.preprocess_once
UnclusteredLog(c2s) ==
    LET unclustered == {k \in DOMAIN c2s : c2s[k] = NoneStr}
    IN  IF unclustered # {}
        THEN <<LogRec("info", "Unable to get clusters", unclustered)>>
        ELSE <<>>

\* the dict ToughM1.preprocess_once pickles
ToughBundle(c2u, u2c, c2s) ==
    [code5_to_uniprot |-> c2u, uniprot_to_code5 |-> u2c, code5_to_seqclust |-> c2s]

\* the dict Prospeccts.preprocess_once pickles
ProspecctsBundle(c2u, c2s) == [code5_to_uniprot |-> c2u, code5_to_seqclusts |-> c2s]

\* the exception leaves preprocess_once: nothing after the loop runs
PreRaise(exc) ==
    /\ raised' = exc
    /\ pc' = "raised"
    /\ UNCHANGED <<pp_next, bundle>>

\* a variant of BatchLeft that ends the loop after any result
BatchLeftNone(n, entries) == FALSE

\* executor.map has a result at position n still to yield
BatchLeft(n, entries) == n <= Len(entries)

\* the loop goes on to the result at position n, or ends: then the dict is dumped
T_LoopOn(n, c2u, u2c, c2s, lg) ==
    /\ pp_next' = n
    /\ raised' = NoExc
    /\ IF BatchLeft(n, pp_entries)
       THEN /\ pc' = "map"
            /\ log' = lg
            /\ UNCHANGED bundle
       ELSE /\ pc' = "done"
            /\ log' = lg \o UnclusteredLog(c2s)
            /\ bundle' = <<ToughBundle(c2u, u2c, c2s)>>

P_LoopOn(n, c2u, c2s, lg) ==
    /\ pp_next' = n
    /\ raised' = NoExc
    /\ log' = lg
    /\ IF BatchLeft(n, pp_entries)
       THEN /\ pc' = "map"
            /\ UNCHANGED bundle
       ELSE /\ pc' = "done"
            /\ bundle' = <<ProspecctsBundle(c2u, c2s)>>

\* ToughM1.preprocess_once up to the call of executor.map
T_Start ==
    /\ pc = "start"
    /\ pp_family = "toughm1"
    /\ code5_to_uniprot' = <<>>
    /\ code5_to_seqclust' = <<>>
    /\ uniprot_to_code5' = <<>>
    /\ T_LoopOn(1, <<>>, <<>>, <<>>, Append(log, LogRec("info", "Preprocessing", "toughm1")))
    /\ UNCHANGED <<pp_family, pp_dbname, pp_entries, w_done, w_out, clusters, obs_cache>>
    /\ UNCHANGED notPre

\* Prospeccts.preprocess_once up to the call of executor.map; any dbname
\* but 'P1' skips the batch and writes nothing
P_Start ==
    /\ pc = "start"
    /\ pp_family = "prospeccts"
    /\ code5_to_uniprot' = <<>>
    /\ code5_to_seqclust' = <<>>
    /\ IF pp_dbname = "P1"
       THEN P_LoopOn(1, <<>>, <<>>, Append(log, LogRec("info", "Preprocessing", "prospeccts")))
       ELSE /\ pc' = "done"
            /\ UNCHANGED <<pp_next, raised, log, bundle>>
    /\ UNCHANGED <<pp_family, pp_dbname, pp_entries, w_done, w_out, uniprot_to_code5, clusters,
                   obs_cache>>
    /\ UNCHANGED notPre

\* the worker of one argument ends, in any order among the workers; what it
\* returned or raised stays in its future until executor.map yields it
WorkerFinish ==
    /\ pc = "map"
    /\ \E i \in (DOMAIN pp_entries) \ Range(w_done) : w_done' = Append(w_done, i)
    /\ UNCHANGED <<pc, log, raised, pp_family, pp_dbname, pp_entries, w_out, pp_next,
                   code5_to_uniprot, code5_to_seqclust, uniprot_to_code5, bundle,
                   clusters, obs_cache>>
    /\ UNCHANGED notPre

\* The status answers that matter to the get_seqclust calls on the chains of
\* one code: every answer when a call misses the index and the code is not
\* in the lru_cache, so that a request is made; one stand-in when none is made
StatusAnswers(cl, cache, code, chains) ==
    IF code \notin DOMAIN cache /\ \E ch \in chains : QueryStr(code, ch) \notin DOMAIN cl
    THEN ObsResponses
    ELSE {ObsResponse("error", "-", <<>>)}

\* ToughM1: executor.map yields the next result in the order of `entries`,
\* or re-raises what its worker raised; then the body of the loop
T_Merge ==
    /\ pc = "map"
    /\ pp_family = "toughm1"
    /\ pp_next <= Len(pp_entries)
    /\ pp_next \in Range(w_done)
    /\ \E o \in ToughWorkerOutcomes[pp_entries[pp_next]] :
        /\ w_out' = [w_out EXCEPT ![pp_next] = <<o>>]
        /\ IF o.kind = "exc"
           THEN /\ PreRaise(o.exc)
                /\ UNCHANGED <<log, code5_to_uniprot, code5_to_seqclust, uniprot_to_code5, obs_cache>>
           ELSE \E resp \in StatusAnswers(clusters, obs_cache, o.ret[3].head, {o.ret[3].tail}) :
                LET code5 == o.ret[1]
                    uniprot == o.ret[2]
                    code5new == o.ret[3]
                    c2u == DictSet(code5_to_uniprot, code5, uniprot)
                    u2c == DictSet(uniprot_to_code5, uniprot,
                                   ListGet(uniprot_to_code5, uniprot) \o <<code5>>)
                    g == GetSeqclustRun(clusters, obs_cache, code5new.head, code5new.tail,
                                        TRUE, resp, 0)
                    c2s == DictSet(code5_to_seqclust, code5, g.ret[1])
                IN  /\ code5_to_uniprot' = c2u
                    /\ uniprot_to_code5' = u2c
                    /\ obs_cache' = g.cache
                    /\ IF g.raised # NoExc
                       THEN /\ PreRaise(g.raised)
                            /\ log' = log \o g.log
                            /\ UNCHANGED code5_to_seqclust
                       ELSE /\ code5_to_seqclust' = c2s
                            /\ T_LoopOn(pp_next + 1, c2u, u2c, c2s, log \o g.log)
    /\ UNCHANGED <<pp_family, pp_dbname, pp_entries, w_done, clusters>>
    /\ UNCHANGED notPre

\* Prospeccts: the same for `for code, uniprot in executor.map(...)`
P_Merge ==
    /\ pc = "map"
    /\ pp_family = "prospeccts"
    /\ pp_next <= Len(pp_entries)
    /\ pp_next \in Range(w_done)
    /\ \E o \in ProspecctsWorkerOutcomes[pp_entries[pp_next]] :
        /\ w_out' = [w_out EXCEPT ![pp_next] = <<o>>]
        /\ IF o.kind = "exc"
           THEN /\ PreRaise(o.exc)
                /\ UNCHANGED <<log, code5_to_uniprot, code5_to_seqclust, obs_cache>>
           ELSE IF o.ret[1] = PyNone
           THEN /\ P_LoopOn(pp_next + 1, code5_to_uniprot, code5_to_seqclust, log)
                /\ UNCHANGED <<code5_to_uniprot, code5_to_seqclust, obs_cache>>
           ELSE \E resp \in StatusAnswers(clusters, obs_cache, o.ret[1][1].head,
                                            Range(AsciiUppercase)) :
                LET code == o.ret[1][1]
                    uniprot == o.ret[2]
                    c2u == DictSet(code5_to_uniprot, code, uniprot)
                    r == SeqclustsRun(clusters, obs_cache, code.head, AsciiUppercase, resp)
                    c2s == DictSet(code5_to_seqclust, code, r.set)
                IN  /\ code5_to_uniprot' = c2u
                    /\ obs_cache' = r.cache
                    /\ IF r.raised # NoExc
                       THEN /\ PreRaise(r.raised)
                            /\ log' = log \o r.log
                            /\ UNCHANGED code5_to_seqclust
                       ELSE /\ code5_to_seqclust' = c2s
                            /\ P_LoopOn(pp_next + 1, c2u, c2s, log \o r.log)
    /\ UNCHANGED <<pp_family, pp_dbname, pp_entries, w_done, uniprot_to_code5, clusters>>
    /\ UNCHANGED notPre

----------------------------------------------------------------------------
(* get_structures *)

\* the structure identifiers a ProSPECCTs csv names; the second has only
\* four characters
ProspecctsIds == {Str5("1abc", "A"), Str5("2xyz", "")}

StructIds(fam) == IF fam = "toughm1" THEN ToughCode5s ELSE ProspecctsIds

\* s[:4]
First4(s) == s.head

\* A line of TOUGH-M1_pocket.list: `code5 pocketnr x`, or a line that does
\* not split into three tokens
PocketLine(code5, pocketnr) == [ok |-> TRUE, code5 |-> code5, pocketnr |-> pocketnr]

BadLine == [ok |-> FALSE]

PocketLines == {PocketLine(c, 1) : c \in ToughCode5s} \cup {BadLine}

\* A line of the csv: `id1,id2,...`, or a line without a comma
CsvLine(id1, id2) == [ok |-> TRUE, id1 |-> id1, id2 |-> id2]

CsvLines == {CsvLine(a, b) : a, b \in ProspecctsIds} \cup {BadLine}

ListingsOf(fam) ==
    UNION {[1..n -> IF fam = "toughm1" THEN PocketLines ELSE CsvLines] : n \in 0..MaxListLines}

\* values a mapping bundle can hold for a structure
UniprotVals == {"None", "P12345"}

SeqclustVals == {NoneStr, ClusterId(0)}

\* dicts over some of the identifiers: none, some or all of them are keys
DictsOver(ids, vals) == UNION {[D -> vals] : D \in SUBSET ids}

\* pdbcode_mappings.pickle: absent, or a dict of the family's two maps
MappingFiles(fam) ==
    {<<>>} \cup
    {IF fam = "toughm1" THEN <<ToughBundle(c2u, <<>>, c2s)>> ELSE <<ProspecctsBundle(c2u, c2s)>> :
        c2u \in DictsOver(StructIds(fam), UniprotVals),
        c2s \in DictsOver(StructIds(fam), SeqclustVals)}

\* the path fields of an entry: each is made of the directory roots, which
\* are fixed, the identifier and, for ToughM1's pocket, the pocket number
PathOf(kind, code5, nr) == <<kind, code5, nr>>

\* Python's truth value of `None` (<<>>) or of a dict
Truthy(d) == d # <<>> /\ DOMAIN d[1] # {}

\* `d[k] if d else 'None'` with the sentinel of the field; the lookup raises
\* KeyError on a missing key
LookupOrNone(d, k, sentinel) ==
    IF ~Truthy(d) THEN [val |-> sentinel, raised |-> NoExc]
    ELSE IF k \in DOMAIN d[1] THEN [val |-> d[1][k], raised |-> NoExc]
    ELSE [val |-> sentinel, raised |-> Exc("dict[code5]", "KeyError")]

\* `'code': code5[:4]`
EntryCode(code5) == First4(code5)

\* the dict ToughM1.get_structures appends for one line
ToughEntry(line, uniprot, seqclust) ==
    [protein |-> PathOf("protein", line.code5, 0),
     pocket |-> PathOf("pocket", line.code5, line.pocketnr - 1),
     ligand |-> PathOf("ligand", line.code5, 0),
     protein_htmd |-> PathOf("protein_htmd", line.code5, 0),
     code5 |-> line.code5,
     code |-> EntryCode(line.code5),
     uniprot |-> uniprot,
     seqclust |-> seqclust]

\* the dict Prospeccts.get_structures appends for one identifier
ProspecctsEntry(pdb, uniprot, seqclusts) ==
    [protein |-> PathOf("protein", pdb, 0),
     pocket |-> PathOf("pocket", pdb, 1),
     ligand |-> PathOf("ligand", pdb, 1),
     protein_htmd |-> PathOf("protein_htmd", pdb, 0),
     code5 |-> pdb,
     code |-> EntryCode(pdb),
     uniprot |-> uniprot,
     seqclusts |-> seqclusts]

StructOutcome(ret, exc) == [ret |-> ret, raised |-> exc]

\* ToughM1: the loop over the lines still to read, `entries` so far
RECURSIVE T_ReadPocketList(_, _, _, _)
T_ReadPocketList(lines, c2u, c2s, entries) ==
    IF lines = <<>> THEN StructOutcome(<<entries>>, NoExc)
    ELSE IF ~Head(lines).ok THEN StructOutcome(<<>>, Exc("line.split", "ValueError"))
    ELSE LET u == LookupOrNone(c2u, Head(lines).code5, "None")
             c == LookupOrNone(c2s, Head(lines).code5, NoneStr)
         IN  IF u.raised # NoExc THEN StructOutcome(<<>>, u.raised)
             ELSE IF c.raised # NoExc THEN StructOutcome(<<>>, c.raised)
             ELSE T_ReadPocketList(Tail(lines), c2u, c2s,
                                   Append(entries, ToughEntry(Head(lines), u.val, c.val)))

\* ToughM1.get_structures(extra_mappings)
T_GetStructuresRun(extra_mappings, lines, mapping) ==
    IF extra_mappings /\ mapping = <<>>
    THEN StructOutcome(<<>>, Exc("open", "FileNotFoundError"))
    ELSE LET c2u == IF extra_mappings THEN <<mapping[1].code5_to_uniprot>> ELSE <<>>
             c2s == IF extra_mappings THEN <<mapping[1].code5_to_seqclust>> ELSE <<>>
         IN  T_ReadPocketList(lines, c2u, c2s, <<>>)

\* Prospeccts: `db_pdbs` after the lines read without an error
RECURSIVE DbPdbs(_)
DbPdbs(lines) ==
    IF lines = <<>> THEN {}
    ELSE {Head(lines).id1, Head(lines).id2} \cup DbPdbs(Tail(lines))

\* Prospeccts: the loop `for pdb in db_pdbs` over the identifiers still to come
RECURSIVE P_BuildEntries(_, _, _, _)
P_BuildEntries(order, c2u, c2s, entries) ==
    IF order = <<>> THEN StructOutcome(<<entries>>, NoExc)
    ELSE LET u == LookupOrNone(c2u, Head(order), "None")
             c == LookupOrNone(c2s, Head(order), NoneStr)
         IN  IF u.raised # NoExc THEN StructOutcome(<<>>, u.raised)
             ELSE IF c.raised # NoExc THEN StructOutcome(<<>>, c.raised)
             ELSE P_BuildEntries(Tail(order), c2u, c2s,
                                 Append(entries, ProspecctsEntry(Head(order), u.val, c.val)))

\* the orders in which a set can be iterated
OrdersOf(S) == {o \in [1..Cardinality(S) -> S] : \A i, j \in DOMAIN o : o[i] = o[j] => i = j}

\* Prospeccts.get_structures(extra_mappings); order is the iteration order
\* of the set db_pdbs
P_GetStructuresRun(extra_mappings, lines, mapping, order) ==
    IF \E i \in DOMAIN lines : ~lines[i].ok
    THEN StructOutcome(<<>>, Exc("tokens[1]", "IndexError"))
    ELSE IF extra_mappings /\ mapping = <<>>
    THEN StructOutcome(<<>>, Exc("open", "FileNotFoundError"))
    ELSE LET c2u == IF extra_mappings THEN <<mapping[1].code5_to_uniprot>> ELSE <<>>
             c2s == IF extra_mappings THEN <<mapping[1].code5_to_seqclusts>> ELSE <<>>
         IN  P_BuildEntries(order, c2u, c2s, <<>>)

GetStructuresDone(extra_mappings, r) ==
    /\ st_extra_mappings' = extra_mappings
    /\ st_entries' = r.ret
    /\ raised' = r.raised
    /\ pc' = IF r.raised = NoExc THEN "returned" ELSE "raised"
    /\ UNCHANGED <<log, st_family, st_lines, st_mapping>>
    /\ UNCHANGED notStruct

\* one call ToughM1().get_structures(extra_mappings)
T_GetStructures ==
    /\ pc = "idle"
    /\ st_family = "toughm1"
    /\ \E extra_mappings \in BOOLEAN :
         GetStructuresDone(extra_mappings,
                           T_GetStructuresRun(extra_mappings, st_lines, st_mapping))

\* one call Prospeccts(dbname).get_structures(extra_mappings)
P_GetStructures ==
    /\ pc = "idle"
    /\ st_family = "prospeccts"
    /\ \E extra_mappings \in BOOLEAN :
         \E order \in OrdersOf(DbPdbs(SelectSeq(st_lines, LAMBDA l : l.ok))) :
            GetStructuresDone(extra_mappings,
                              P_GetStructuresRun(extra_mappings, st_lines, st_mapping, order))

----------------------------------------------------------------------------
(* RcsbPdbClusters._fetch_cluster_file, for one identity threshold *)

\* a variant of PathExists that never finds the file
PathExistsNever(file) == FALSE

\* os.path.exists(cluster_file_path)
PathExists(file) == file # <<>>

\* What request.urlretrieve can do: write the whole file; raise before the
\* file is created; raise after part of it was written.  The server's file
\* changes over time, so the content is any cluster file.
Download(kind, content) == [kind |-> kind, content |-> content]

Downloads ==
    {Download("ok", f) : f \in ClusterFiles}
    \cup {Download("refused", <<>>)}
    \cup {Download("cut", f) : f \in ClusterFiles}

DownloadFailure(d) ==
    CASE d.kind = "refused" -> Exc("request.urlretrieve", "URLError")
      [] d.kind = "cut" -> Exc("request.urlretrieve", "ContentTooShortError")
      [] OTHER -> NoExc

\* what one construction found, did and built
LoadRec(existed, fetched, wrote, exc, cl) ==
    [existed |-> existed, fetched |-> fetched, wrote |-> wrote, raised |-> exc, clusters |-> cl]

FetchLogs(file) ==
    <<LogRec("info", "cluster file path", "bc-30.out")>>
    \o (IF PathExists(file) THEN <<>>
        ELSE <<LogRec("warning", "Cluster definition not found", "bc-30.out"),
               LogRec("warning", "silent incompatibilities", "bc-30.out")>>)

\* RcsbPdbClusters(identity=30): __init__ and _fetch_cluster_file
Construct ==
    /\ pc = "idle"
    /\ Len(cf_loads) < MaxLoads
    /\ log' = FetchLogs(cf_file)
    /\ IF PathExists(cf_file)
       THEN /\ cf_loads' = Append(cf_loads, LoadRec(cf_file # <<>>, FALSE, FALSE, NoExc,
                                                    LoadClusters(cf_file[1])))
            /\ raised' = NoExc
            /\ UNCHANGED <<cf_file, cf_writes>>
       ELSE \E d \in Downloads :
            /\ cf_file' = IF d.kind = "refused" THEN cf_file ELSE <<d.content>>
            /\ cf_writes' = IF d.kind = "refused" THEN cf_writes ELSE cf_writes + 1
            /\ raised' = DownloadFailure(d)
            /\ cf_loads' = Append(cf_loads,
                              LoadRec(cf_file # <<>>, TRUE, d.kind # "refused", DownloadFailure(d),
                                      IF d.kind = "ok" THEN LoadClusters(d.content) ELSE <<>>))
    /\ UNCHANGED pc
    /\ UNCHANGED notFetch

----------------------------------------------------------------------------
(* Specifications *)

\* no get_seqclust call made, no index loaded
ClustIdle ==
    /\ clusters = <<>>
    /\ obs_cache = <<>>
    /\ gs_call = <<>>
    /\ gs_ret = <<>>
    /\ gs_trace = [requests |-> <<>>, checks |-> <<>>, depth |-> 0]

\* no accession lookup made
ResolveIdle ==
    /\ rs_call = <<>>
    /\ rs_resp = <<>>
    /\ rs_ret = <<>>

\* no get_structures call made
StructIdle ==
    /\ st_family = "none"
    /\ st_extra_mappings = FALSE
    /\ st_lines = <<>>
    /\ st_mapping = <<>>
    /\ st_entries = <<>>

\* no RcsbPdbClusters constructed in this part
FetchIdle ==
    /\ cf_file = <<>>
    /\ cf_writes = 0
    /\ cf_loads = <<>>

\* no voc_ap call made
VocIdle ==
    /\ va_rec = <<>>
    /\ va_prec = <<>>
    /\ va_run = <<>>

\* no preprocess_once call made
PreIdle ==
    /\ pp_family = "none"
    /\ pp_dbname = ""
    /\ pp_entries = <<>>
    /\ w_done = <<>>
    /\ w_out = <<>>
    /\ pp_next = 0
    /\ code5_to_uniprot = <<>>
    /\ code5_to_seqclust = <<>>
    /\ uniprot_to_code5 = <<>>
    /\ bundle = <<>>

\* no evaluate_matching call made
EvalIdle ==
    /\ family = "none"
    /\ target_dict = <<>>
    /\ listing = <<>>
    /\ f_pairs = <<>>
    /\ pairs = <<>>
    /\ positives = <<>>
    /\ matcher_calls = <<>>
    /\ scores = <<>>
    /\ positives_clean = <<>>
    /\ scores_clean = <<>>
    /\ metric_calls = <<>>
    /\ results = <<>>

EvalInit ==
    /\ StructIdle
    /\ FetchIdle
    /\ VocIdle
    /\ ClustIdle
    /\ ResolveIdle
    /\ PreIdle
    /\ family \in {"prospeccts", "toughm1"}
    /\ pc = IF family = "prospeccts" THEN "p_read" ELSE "t_read_pos"
    /\ \E cat \in SUBSET Ids : target_dict = [id \in cat |-> Entry(id)]
    /\ listing = <<>>
    /\ f_pairs = <<>>
    /\ pairs = <<>>
    /\ positives = <<>>
    /\ matcher_calls = <<>>
    /\ scores = <<>>
    /\ positives_clean = <<>>
    /\ scores_clean = <<>>
    /\ metric_calls = <<>>
    /\ results = <<>>
    /\ log = <<>>
    /\ raised = NoExc

EvalNext ==
    \/ P_ReadLine
    \/ P_EndOfFile
    \/ T_ReadLine
    \/ T_EndOfFile
    \/ Evaluate

SpecEval == EvalInit /\ [][EvalNext]_vars

\* RcsbPdbClusters(identity) has been constructed from some cluster file;
\* the process has made no status request yet
ClustInit ==
    /\ StructIdle
    /\ FetchIdle
    /\ VocIdle
    /\ EvalIdle
    /\ ResolveIdle
    /\ PreIdle
    /\ \E f \in ClusterFiles : clusters = LoadClusters(f)
    /\ obs_cache = <<>>
    /\ gs_call = <<>>
    /\ gs_ret = <<>>
    /\ gs_trace = [requests |-> <<>>, checks |-> <<>>, depth |-> 0]
    /\ pc = "idle"
    /\ log = <<>>
    /\ raised = NoExc

ClustNext == GetSeqclust

SpecClust == ClustInit /\ [][ClustNext]_vars

\* a worker about to look up the accession of one chain
ResolveInit ==
    /\ StructIdle
    /\ FetchIdle
    /\ VocIdle
    /\ EvalIdle
    /\ ClustIdle
    /\ ResolveIdle
    /\ PreIdle
    /\ pc = "idle"
    /\ log = <<>>
    /\ raised = NoExc

ResolveNext ==
    \/ T_Resolve
    \/ P_Resolve

SpecResolve == ResolveInit /\ [][ResolveNext]_vars

\* recall and precision values of the arrays handed to voc_ap directly
CurveVals == {FNum(0, 1), FNum(1, 3), FNum(1, 2), FNum(1, 1)}

\* any two arrays of one length
ArrayInputs == UNION {[1..n -> CurveVals] \X [1..n -> CurveVals] : n \in 0..MaxPoints}

\* the arrays the metrics code hands over: `recall[::-1], precision[::-1]`
\* of a precision_recall_curve of either release
CurveInputs ==
    {<<Reverse(PrecisionRecallCurve(ys[1], ys[2], release).recall),
       Reverse(PrecisionRecallCurve(ys[1], ys[2], release).precision)>> :
        ys \in {c \in CleanInputs : Len(c[1]) > 0}, release \in SklearnReleases}

\* voc_ap is about to be called on some recall and precision arrays
VocInit ==
    /\ EvalIdle
    /\ ClustIdle
    /\ ResolveIdle
    /\ PreIdle
    /\ StructIdle
    /\ FetchIdle
    /\ \E rp \in ArrayInputs \cup CurveInputs :
         /\ va_rec = rp[1]
         /\ va_prec = rp[2]
    /\ va_run = <<>>
    /\ pc = "idle"
    /\ log = <<>>
    /\ raised = NoExc

\* one call voc_ap(rec, prec)
VocAp ==
    /\ pc = "idle"
    /\ va_run' = <<VocApRun(va_rec, va_prec)>>
    /\ pc' = "returned"
    /\ UNCHANGED <<va_rec, va_prec, log, raised>>
    /\ UNCHANGED notVoc

VocNext == VocAp

SpecVocAp == VocInit /\ [][VocNext]_vars

\* the cache directory holds bc-30.out or not; nothing constructed yet
FetchInit ==
    /\ EvalIdle
    /\ ClustIdle
    /\ ResolveIdle
    /\ PreIdle
    /\ StructIdle
    /\ VocIdle
    /\ cf_file \in {<<>>} \cup {<<f>> : f \in ClusterFiles}
    /\ cf_writes = 0
    /\ cf_loads = <<>>
    /\ pc = "idle"
    /\ log = <<>>
    /\ raised = NoExc

FetchNext == Construct

SpecFetch == FetchInit /\ [][FetchNext]_vars

\* get_structures is about to be called on some listing, with the mapping
\* bundle present or not
StructInit ==
    /\ EvalIdle
    /\ ClustIdle
    /\ ResolveIdle
    /\ PreIdle
    /\ FetchIdle
    /\ VocIdle
    /\ st_family \in {"toughm1", "prospeccts"}
    /\ st_extra_mappings = FALSE
    /\ st_lines \in ListingsOf(st_family)
    /\ st_mapping \in MappingFiles(st_family)
    /\ st_entries = <<>>
    /\ pc = "idle"
    /\ log = <<>>
    /\ raised = NoExc

StructNext ==
    \/ T_GetStructures
    \/ P_GetStructures

SpecStruct == StructInit /\ [][StructNext]_vars

\* the arguments of one batch: the entries of get_structures (ToughM1), the
\* .pdb files found (Prospeccts)
EntryLists(S) == UNION {[1..n -> S] : n \in 0..MaxEntries}

\* the cluster file a batch is run against: it knows three of the four
\* chains, so a lookup can hit, miss, or miss and be redirected to a hit
PreClusterFile == <<{QueryStr("1abc", "A")}, {QueryStr("2xyz", "A"), QueryStr("2xyz", "B")}>>

\* preprocess_once has been called, the cluster index is loaded, the process
\* has made no status request yet
PreInit ==
    /\ StructIdle
    /\ FetchIdle
    /\ VocIdle
    /\ EvalIdle
    /\ ResolveIdle
    /\ pp_family \in {"toughm1", "prospeccts"}
    /\ pp_dbname \in IF pp_family = "prospeccts" THEN {"P1", "P2"} ELSE {""}
    /\ pp_entries \in EntryLists(IF pp_family = "toughm1" THEN ToughCode5s ELSE PdbFiles)
    /\ w_done = <<>>
    /\ w_out = [i \in DOMAIN pp_entries |-> <<>>]
    /\ pp_next = 0
    /\ code5_to_uniprot = <<>>
    /\ code5_to_seqclust = <<>>
    /\ uniprot_to_code5 = <<>>
    /\ bundle = <<>>
    /\ clusters = LoadClusters(PreClusterFile)
    /\ obs_cache = <<>>
    /\ gs_call = <<>>
    /\ gs_ret = <<>>
    /\ gs_trace = [requests |-> <<>>, checks |-> <<>>, depth |-> 0]
    /\ pc = "start"
    /\ log = <<>>
    /\ raised = NoExc

PreNext ==
    \/ T_Start
    \/ P_Start
    \/ WorkerFinish
    \/ T_Merge
    \/ P_Merge

SpecPre == PreInit /\ [][PreNext]_vars

----------------------------------------------------------------------------
(* Properties of evaluate_matching (checked under SpecEval) *)

\* a listing line both of whose identifiers are in the catalog
Kept(l) == l.id1 \in DOMAIN target_dict /\ l.id2 \in DOMAIN target_dict

Dropped(l) == ~Kept(l)

KeptLines == SelectSeq(listing, Kept)

DroppedLines == SelectSeq(listing, Dropped)

\* the pair and the label a kept line stands for
PairOfLine(l) == <<Entry(l.id1), Entry(l.id2)>>

LabelOfLine(l) == IF l.file = "csv" THEN l.cls = "active" ELSE l.file = "pos"

PairsOfLines(ls) == [i \in 1..Len(ls) |-> PairOfLine(ls[i])]

LabelsOfLines(ls) == [i \in 1..Len(ls) |-> LabelOfLine(ls[i])]

KeptPairs == PairsOfLines(KeptLines)

KeptLabels == LabelsOfLines(KeptLines)

\* the listing has been read to its end
ListBuilt == pc \in {"match", "done"}

NonFinite(s) == s.kind # "finite"

\* positions of the scores that are neither NaN nor infinite, ascending
FinitePositions ==
    SelectSeq([i \in 1..Len(scores) |-> i], LAMBDA i : ~NonFinite(scores[i]))

NonFiniteCount == Cardinality({i \in DOMAIN scores : NonFinite(scores[i])})

\* the elements of a at the positions ps, in the order of ps
AtPositions(a, ps) == [k \in 1..Len(ps) |-> a[ps[k]]]

FiniteLabels == AtPositions(positives, FinitePositions)

FiniteScores == AtPositions(scores, FinitePositions)

\* an error raised by a guard of evaluate_matching itself
InsufficientData == Exc("evaluate_matching", "insufficient data")

\* C4: once the listing is read, a listing of N lines of which k name an
\* identifier absent from the catalog has given exactly N-k pairs and N-k
\* labels: pair i and label i are those of the i-th kept line, in listing
\* order, a repeated line giving a repeated pair; for TOUGH-M1 the lines of
\* the positive file come before those of the negative file.
C4_PairsAreKeptLines ==
    ListBuilt =>
        /\ Len(pairs) = Len(listing) - Len(DroppedLines)
        /\ Len(positives) = Len(pairs)
        /\ \A i \in 1..Len(KeptLines) :
             /\ pairs[i] = PairOfLine(KeptLines[i])
             /\ positives[i] = LabelOfLine(KeptLines[i])
        /\ \A i, j \in 1..Len(listing) :
             (i < j /\ listing[i].file = "neg") => listing[j].file = "neg"

\* C4 witness: three lines read, one dropped, the two kept ones identical
C4_Witness ==
    /\ pc = "match"
    /\ Len(listing) = 3
    /\ Len(DroppedLines) = 1
    /\ Len(pairs) = 2
    /\ pairs[1] = pairs[2]

\* C5: at every moment, in both families, each line read so far whose pair
\* was dropped has given one logged warning, and no error was raised.
C5_EveryDropWarns ==
    /\ Len(LogOf("Detection entry missing")) = Len(DroppedLines)
    /\ (pc # "done" => raised = NoExc)

\* C6: pair_match is not called while the pair list is being built, and by
\* the end of evaluate_matching it has been called exactly once, with the
\* full ordered list of retained pairs.
C6_MatcherCalledOnce ==
    /\ pc # "done" => matcher_calls = <<>>
    /\ pc = "done" => (matcher_calls = <<KeptPairs>> /\ matcher_calls = <<pairs>>)

\* C6 witness: a finished evaluation of two retained pairs, one score not finite
C6_Witness ==
    /\ pc = "done"
    /\ Len(pairs) = 2
    /\ NonFiniteCount = 1
    /\ Len(matcher_calls) = 1

\* C7: every metric routine is called on exactly the labels and scores at
\* the positions of finite scores, in their original order, and the warning
\* with the number m of excluded pairs is logged once when m > 0 and never
\* when m = 0.
C7_MetricsOverFinite ==
    pc = "done" =>
        /\ Len(metric_calls) >= 1
        /\ \A c \in 1..Len(metric_calls) :
             /\ metric_calls[c].y_true = FiniteLabels
             /\ metric_calls[c].y_score = FiniteScores
        /\ positives_clean = FiniteLabels
        /\ scores_clean = FiniteScores
        /\ (results # <<>> => Len(metric_calls) = 4)
        /\ LogOf("Ignoring pairs") =
             IF NonFiniteCount > 0
             THEN <<LogRec("warning", "Ignoring pairs", NonFiniteCount)>>
             ELSE <<>>

\* C7 witness: one of three scores is excluded, the metrics run over the
\* other two and give a numeric AUC
C7_Witness ==
    /\ pc = "done"
    /\ Len(scores) = 3
    /\ NonFiniteCount = 1
    /\ Len(metric_calls) = 4
    /\ Len(metric_calls[1].y_score) = 2
    /\ results # <<>>
    /\ ~results[1].auc.nan
    /\ Len(LogOf("Ignoring pairs")) = 1

\* C8: a returned result echoes pairs, scores and pos_mask unfiltered: each
\* has the length of the retained pair list and holds the retained pairs,
\* the matcher's scores and the labels, in the original order.
C8_EchoUnfiltered ==
    (pc = "done" /\ results # <<>>) =>
        /\ results[1].pairs = KeptPairs
        /\ results[1].scores = scores
        /\ results[1].pos_mask = KeptLabels
        /\ Len(results[1].pairs) = Len(KeptLines)
        /\ Len(results[1].scores) = Len(KeptLines)
        /\ Len(results[1].pos_mask) = Len(KeptLines)

\* C8 witness: a result is returned although scores were excluded from the
\* metrics, and it still holds a non-finite score
C8_Witness ==
    /\ pc = "done"
    /\ results # <<>>
    /\ ~results[1].auc.nan
    /\ NonFiniteCount = 1
    /\ Len(results[1].scores) = 3
    /\ \E i \in 1..3 : results[1].scores[i] = NaN

\* C9: when every score is non-finite, evaluate_matching ends by raising
\* the insufficient-data error of a guard of its own and returns no result.
C9_AllNonFiniteRaisesInsufficientData ==
    (pc = "done" /\ Len(scores) > 0 /\ NonFiniteCount = Len(scores)) =>
        (raised = InsufficientData /\ results = <<>>)

\* C10: when the labels at the finite scores are all of one class,
\* evaluate_matching raises the insufficient-data error of a guard of its
\* own before any metric routine is called.
C10_OneClassRaisesBeforeMetrics ==
    (pc = "done" /\ Len(FinitePositions) > 0 /\ Cardinality(Range(FiniteLabels)) = 1) =>
        (raised = InsufficientData /\ metric_calls = <<>>)

\* every score is finite, both classes occur, and every positive pair
\* scores strictly higher than every negative pair
PerfectlySeparated ==
    /\ NonFiniteCount = 0
    /\ Range(positives) = {TRUE, FALSE}
    /\ \A i, j \in DOMAIN scores :
         (positives[i] /\ ~positives[j]) => scores[i].val > scores[j].val

\* C11: on labels and finite scores with both classes present and every
\* positive pair scored strictly above every negative pair,
\* evaluate_matching returns auc = 1 and ap = 1.
C11_PerfectSeparationGivesOne ==
    (pc = "done" /\ PerfectlySeparated) =>
        /\ raised = NoExc
        /\ results # <<>>
        /\ ~results[1].auc.nan
        /\ results[1].auc.num = results[1].auc.den
        /\ results[1].ap = FNum(1, 1)

\* C11 witness: three pairs, two of them positive, perfectly separated, and
\* a result is returned
C11_Witness ==
    /\ pc = "done"
    /\ PerfectlySeparated
    /\ Len(scores) = 3
    /\ Cardinality({i \in DOMAIN positives : positives[i]}) = 2
    /\ results # <<>>
    /\ results[1].ap = FNum(1, 1)

----------------------------------------------------------------------------
(* Properties of get_seqclust (checked under SpecClust) *)

\* the index key of the last call, written CODE_CHAIN in upper case
LastQuery == <<Upper(gs_call[1].pdbCode), Upper(gs_call[1].chainId)>>

\* C1: get_seqclust never raises, whatever the obsolete-status lookup
\* answers: a call returns one value, the cluster id when CODE_CHAIN is in
\* the index, and the sentinel when it is not and no superseding entry was
\* tried.
C1_GetSeqclustNeverRaises ==
    gs_call # <<>> =>
        /\ raised = NoExc
        /\ Len(gs_ret) = 1
        /\ LastQuery \in DOMAIN clusters =>
             gs_ret[1] = [none |-> FALSE, id |-> clusters[LastQuery]]
        /\ (LastQuery \notin DOMAIN clusters /\ gs_trace.depth = 0) =>
             gs_ret[1].none

\* the last call missed the index for its own (code, chain) with
\* check_obsolete enabled, and the status lookup answered a superseding id
\* (a returned answer is in the lru_cache, a raised one is not)
RedirectedCall ==
    /\ gs_call # <<>>
    /\ gs_call[1].check_obsolete
    /\ LastQuery \notin DOMAIN clusters
    /\ gs_call[1].pdbCode \in DOMAIN obs_cache
    /\ obs_cache[gs_call[1].pdbCode] # <<>>

\* the superseding id the status lookup answered for the last call
Superseding == obs_cache[gs_call[1].pdbCode][1]

\* the index key S_CHAIN of the superseding entry, same chain
SupersedingQuery == <<Upper(Superseding), Upper(gs_call[1].chainId)>>

\* C16: a call that misses with check_obsolete enabled and is answered a
\* superseding id S returns exactly the index lookup of (S, same chain):
\* the cluster id when S_CHAIN is in the index, else the sentinel.  Every
\* top-level call makes at most one status lookup (so at most one request)
\* and recurses at most once, also when S is itself obsolete or supersedes
\* in a cycle.
C16_RedirectIsOneIndexLookup ==
    /\ Len(gs_trace.checks) <= 1
    /\ Len(gs_trace.requests) <= 1
    /\ gs_trace.depth <= 1
    /\ RedirectedCall =>
         /\ pc = "returned"
         /\ raised = NoExc
         /\ gs_trace.depth = 1
         /\ gs_trace.checks = <<gs_call[1].pdbCode>>
         /\ gs_ret = <<IF SupersedingQuery \in DOMAIN clusters
                       THEN [none |-> FALSE, id |-> clusters[SupersedingQuery]]
                       ELSE [none |-> TRUE, id |-> 0]>>

\* C16 witness: the last call was redirected to S, S_CHAIN is in the index
\* and its cluster id came back, while S is itself recorded as obsolete and
\* superseded by the code of the call (a cycle)
C16_Witness ==
    /\ RedirectedCall
    /\ SupersedingQuery \in DOMAIN clusters
    /\ gs_ret = <<[none |-> FALSE, id |-> clusters[SupersedingQuery]]>>
    /\ Superseding # gs_call[1].pdbCode
    /\ Superseding \in DOMAIN obs_cache
    /\ obs_cache[Superseding] = <<gs_call[1].pdbCode>>

\* C16 witness of the sentinel case: redirected to S, S_CHAIN not in the
\* index, the sentinel came back
C16_WitnessSentinel ==
    /\ RedirectedCall
    /\ SupersedingQuery \notin DOMAIN clusters
    /\ gs_ret = <<[none |-> TRUE, id |-> 0]>>

----------------------------------------------------------------------------
(* Properties of the accession lookups (checked under SpecResolve) *)

\* the mappings request of the lookup failed in transport, in parsing or on
\* a missing key of the document
LookupFailed ==
    \/ rs_resp[1].shape # "ok"
    \/ \E i \in DOMAIN rs_resp[1].fam : \E k \in DOMAIN rs_resp[1].fam[i].mappings :
         ~rs_resp[1].fam[i].mappings[k].has_chain_id

\* C2: in both dataset families the accession lookup never raises: it
\* returns a value, and when the mappings request failed (transport, parse
\* or missing key) that value is the sentinel and a warning was logged.
C2_ResolveNeverRaises ==
    rs_call # <<>> =>
        /\ raised = NoExc
        /\ Len(rs_ret) = 1
        /\ rs_resp[1].shape # "ok" =>
             /\ rs_ret[1] = [kind |-> "str", str |-> "None", set |-> {}]
             /\ \E i \in DOMAIN log : log[i].level = "warning"

\* the accessions the response maps to the queried chain, in the iteration
\* order of the two loops (an accession once per matching mapping)
MatchingAccessions ==
    LET items == FamItems(rs_resp[1].fam)
        hit(item) == item.chain.has_chain_id /\ item.chain.chain_id = rs_call[1].query_chain_id
        hits == SelectSeq(items, hit)
    IN  [k \in 1..Len(hits) |-> hits[k].fam_id]

\* the lookup returned although the response maps two different accessions
\* to the queried chain
ConflictingAccessions ==
    /\ rs_call # <<>>
    /\ raised = NoExc
    /\ rs_resp[1].shape = "ok"
    /\ rs_call[1].query_chain_id # ""
    /\ Cardinality(Range(MatchingAccessions)) >= 2

\* C12: when the mapping gives two or more different accessions for the
\* queried chain, the resolver returns exactly one accession, the first one
\* met in iteration order, and logs a warning; a later accession neither
\* replaces the first nor is merged with it.
C12_FirstSeenWins ==
    ConflictingAccessions =>
        /\ \/ rs_ret[1] = AccStr(MatchingAccessions[1])
           \/ rs_ret[1] = AccSet({MatchingAccessions[1]})
        /\ \E i \in DOMAIN log : log[i].level = "warning"

----------------------------------------------------------------------------
(* Properties of preprocess_once (checked under SpecPre) *)

\* the worker of the argument at position i raised
WorkerFailed(i) == w_out[i] # <<>> /\ w_out[i][1].kind = "exc"

\* the worker of the argument at position i returned
WorkerReturned(i) == w_out[i] # <<>> /\ w_out[i][1].kind = "ret"

\* the structure identifier of the argument at position i
Code5Of(i) == IF pp_family = "toughm1" THEN pp_entries[i] ELSE pp_entries[i].fname

\* no later argument has the same structure identifier
LastOfItsCode5(i) == \A j \in DOMAIN pp_entries : Code5Of(j) = Code5Of(i) => j <= i

PreEnded == pc \in {"done", "raised"}

\* C3: when the worker of one structure fails with an exception, the call
\* still ends normally with the mapping bundle written, the failed structure
\* is recorded with the sentinel 'None', and every other structure keeps the
\* accession its own worker returned.
C3_WorkerFailureIsolated ==
    (PreEnded /\ \E i \in DOMAIN pp_entries : WorkerFailed(i)) =>
        /\ pc = "done"
        /\ raised = NoExc
        /\ bundle # <<>>
        /\ \A i \in DOMAIN pp_entries :
              LastOfItsCode5(i) =>
                  /\ Code5Of(i) \in DOMAIN bundle[1].code5_to_uniprot
                  /\ WorkerFailed(i) =>
                        bundle[1].code5_to_uniprot[Code5Of(i)] = "None"
                  /\ WorkerReturned(i) /\ pp_family = "toughm1" =>
                        bundle[1].code5_to_uniprot[Code5Of(i)] = w_out[i][1].ret[2]

\* preprocess_once ran its batch: ToughM1 always, Prospeccts for 'P1'
BatchRan == pp_family = "toughm1" \/ pp_dbname = "P1"

\* the worker of position i returned a structure identifier (the Prospeccts
\* worker returns None for a file it skips)
Keyed(i) == pp_family = "toughm1" \/ w_out[i][1].ret[1] # PyNone

\* the structure identifier the worker of position i returned
KeyOf(i) == IF pp_family = "toughm1" THEN w_out[i][1].ret[1] ELSE w_out[i][1].ret[1][1]

\* position i is the last one in the order of the arguments with its identifier
LastKeyed(i) ==
    /\ Keyed(i)
    /\ \A j \in DOMAIN pp_entries : (Keyed(j) /\ KeyOf(j) = KeyOf(i)) => j <= i

\* the identifiers, in the order of the arguments up to position n, of the
\* structures whose worker returned the accession u
RECURSIVE Code5sOf(_, _)
Code5sOf(u, n) ==
    IF n = 0 THEN <<>>
    ELSE Code5sOf(u, n - 1) \o (IF w_out[n][1].ret[2] = u THEN <<KeyOf(n)>> ELSE <<>>)

\* the cluster map of the written bundle
WrittenClusters ==
    IF pp_family = "toughm1" THEN bundle[1].code5_to_seqclust ELSE bundle[1].code5_to_seqclusts

\* the cluster entry of position i agrees with the index: ToughM1 holds the
\* index entry of the chain code5new its worker returned, Prospeccts the
\* index entries of every chain letter of its code
ClusterEntryOwn(i) ==
    IF pp_family = "toughm1"
    THEN LET q == QueryStr(w_out[i][1].ret[3].head, w_out[i][1].ret[3].tail)
         IN  /\ q \in DOMAIN clusters => WrittenClusters[KeyOf(i)] = ClusterId(clusters[q])
             /\ WrittenClusters[KeyOf(i)] \in {NoneStr} \cup {ClusterId(clusters[k]) : k \in DOMAIN clusters}
    ELSE /\ \A n \in DOMAIN AsciiUppercase :
              LET q == QueryStr(KeyOf(i).head, AsciiUppercase[n])
              IN  q \in DOMAIN clusters => ClusterId(clusters[q]) \in WrittenClusters[KeyOf(i)]
         /\ WrittenClusters[KeyOf(i)] \subseteq
              {NoneStr} \cup {ClusterId(clusters[k]) : k \in DOMAIN clusters}

\* the written bundle was written after every worker had ended and returned,
\* and holds one accession entry and one cluster entry for each identifier
\* the workers returned, filled from the result of the identifier's own
\* (last) worker in the order of the arguments
BundleOfAllWorkers ==
    /\ pc = "done"
    /\ BatchRan
    /\ Range(w_done) = DOMAIN pp_entries
    /\ \A i \in DOMAIN pp_entries : WorkerReturned(i)
    /\ \A i \in DOMAIN pp_entries : Keyed(i) => KeyOf(i) = Code5Of(i)
    /\ DOMAIN bundle[1].code5_to_uniprot = {KeyOf(i) : i \in {j \in DOMAIN pp_entries : Keyed(j)}}
    /\ DOMAIN WrittenClusters = DOMAIN bundle[1].code5_to_uniprot
    /\ \A i \in DOMAIN pp_entries :
          LastKeyed(i) =>
              /\ bundle[1].code5_to_uniprot[KeyOf(i)] = w_out[i][1].ret[2]
              /\ ClusterEntryOwn(i)
    /\ pp_family = "toughm1" =>
          /\ DOMAIN bundle[1].uniprot_to_code5 = {w_out[i][1].ret[2] : i \in DOMAIN pp_entries}
          /\ \A u \in DOMAIN bundle[1].uniprot_to_code5 :
                bundle[1].uniprot_to_code5[u] = Code5sOf(u, Len(pp_entries))

\* C18: whatever the order in which the workers end, the mapping bundle is
\* written once (a written bundle is never written again), only after all
\* workers have ended, by every batch that ends normally; it holds exactly
\* one accession entry and one cluster entry per structure identifier the
\* workers returned, each from that structure's own worker result, so its
\* content is fixed by the results in the order of the arguments and not
\* by the order of completion.
C18_BundleAfterAllWorkers ==
    /\ [](bundle # <<>> => BundleOfAllWorkers)
    /\ []((pc = "done" /\ BatchRan) => bundle # <<>>)
    /\ []((pc # "done") => bundle = <<>>)
    /\ [][bundle # <<>> => bundle' = bundle]_vars

\* C18 witness: two structures, the worker of the second ended before the
\* worker of the first, both returned different accessions, and the bundle
\* is written with the entries of both
C18_Witness ==
    /\ pc = "done"
    /\ pp_family = "toughm1"
    /\ w_done = <<2, 1>>
    /\ bundle # <<>>
    /\ Cardinality(DOMAIN bundle[1].code5_to_uniprot) = 2
    /\ w_out[1][1].ret[2] # w_out[2][1].ret[2]
    /\ bundle[1].code5_to_uniprot[pp_entries[1]] = w_out[1][1].ret[2]
    /\ bundle[1].code5_to_uniprot[pp_entries[2]] = w_out[2][1].ret[2]

----------------------------------------------------------------------------
(* Properties of get_structures (checked under SpecStruct) *)

\* the entries a returned call gave
Entries == st_entries[1]

\* the cluster field of an entry, and the two maps of the bundle
ClusterField(entry) == IF st_family = "toughm1" THEN entry.seqclust ELSE entry.seqclusts

BundleUniprot == st_mapping[1].code5_to_uniprot

BundleCluster ==
    IF st_family = "toughm1" THEN st_mapping[1].code5_to_seqclust
    ELSE st_mapping[1].code5_to_seqclusts

\* an entry without its two annotation fields
PathFields(entry) ==
    [protein |-> entry.protein, pocket |-> entry.pocket, ligand |-> entry.ligand,
     protein_htmd |-> entry.protein_htmd, code5 |-> entry.code5, code |-> entry.code]

\* what the listing alone says the entries are: one per pocket-list line in
\* order (ToughM1), one per identifier named in the csv (Prospeccts)
ListedPathFields ==
    IF st_family = "toughm1"
    THEN {PathFields(ToughEntry(st_lines[i], "None", NoneStr)) : i \in DOMAIN st_lines}
    ELSE {PathFields(ProspecctsEntry(id, "None", NoneStr)) : id \in DbPdbs(st_lines)}

\* C13: a returned call with extra_mappings=True gives every entry the
\* accession and the cluster value the bundle holds for its code5, whatever
\* the bundle contains (an empty map included); with extra_mappings=False
\* every entry has the sentinel in both fields; the entries and their path
\* fields are those of the listing in both modes.
C13_AnnotatedFromBundle ==
    pc = "returned" =>
        /\ st_extra_mappings =>
             \A i \in DOMAIN Entries :
                /\ Entries[i].code5 \in DOMAIN BundleUniprot
                /\ Entries[i].uniprot = BundleUniprot[Entries[i].code5]
                /\ Entries[i].code5 \in DOMAIN BundleCluster
                /\ ClusterField(Entries[i]) = BundleCluster[Entries[i].code5]
        /\ ~st_extra_mappings =>
             \A i \in DOMAIN Entries :
                /\ Entries[i].uniprot = "None"
                /\ ClusterField(Entries[i]) = NoneStr
        /\ {PathFields(Entries[i]) : i \in DOMAIN Entries} = ListedPathFields
        /\ st_family = "toughm1" =>
             /\ Len(Entries) = Len(st_lines)
             /\ \A i \in DOMAIN Entries : Entries[i].code5 = st_lines[i].code5

\* C14: the entries a call returns have pairwise different code5, and the
\* code of every entry is the first four characters of its code5, for the
\* csv of Prospeccts and for a pocket list of ToughM1 with repeated lines.
C14_Code5Unique ==
    pc = "returned" =>
        /\ \A i, j \in DOMAIN Entries : Entries[i].code5 = Entries[j].code5 => i = j
        /\ \A i \in DOMAIN Entries : Entries[i].code = First4(Entries[i].code5)

----------------------------------------------------------------------------
(* Properties of _fetch_cluster_file (checked under SpecFetch) *)

\* the map the lines of a file stand for: every identifier of the file is a
\* key, and its value is the 0-based number of the last line that names it
IsMapOfLines(cl, lines) ==
    /\ DOMAIN cl = UNION Range(lines)
    /\ \A id \in DOMAIN cl :
         \E n \in DOMAIN lines :
            /\ id \in lines[n]
            /\ cl[id] = n - 1
            /\ \A later \in DOMAIN lines : id \in lines[later] => later <= n

\* C15: over any sequence of constructions for one identity threshold the
\* file is fetched only by a construction that finds no cache file; a
\* construction that finds the file makes no fetch, does not write the file
\* and builds the map of the file's lines (0-based line number as cluster
\* id), the same map as every other construction that found it.
C15_FetchOnlyWhenAbsent ==
    \A k \in DOMAIN cf_loads :
        /\ cf_loads[k].fetched <=> ~cf_loads[k].existed
        /\ cf_loads[k].existed =>
             /\ ~cf_loads[k].wrote
             /\ cf_loads[k].raised = NoExc
             /\ cf_file # <<>>
             /\ IsMapOfLines(cf_loads[k].clusters, cf_file[1])
             /\ \A j \in DOMAIN cf_loads :
                  cf_loads[j].existed => cf_loads[j].clusters = cf_loads[k].clusters
        /\ (k > 1 /\ cf_loads[k - 1].existed) => cf_loads[k].existed
        /\ (k > 1 /\ cf_loads[k - 1].wrote) => cf_loads[k].existed
        /\ cf_writes = Cardinality({j \in DOMAIN cf_loads : cf_loads[j].wrote})
        /\ cf_writes <= 1

\* C15 witness: the first construction fetched and wrote the file, the two
\* after it found the file, fetched nothing and built the same map of two
\* clusters
C15_Witness ==
    /\ Len(cf_loads) = 3
    /\ cf_loads[1].fetched /\ cf_loads[1].wrote /\ cf_loads[1].raised = NoExc
    /\ ~cf_loads[2].fetched /\ ~cf_loads[3].fetched
    /\ cf_loads[2].clusters = cf_loads[1].clusters
    /\ cf_loads[3].clusters = cf_loads[1].clusters
    /\ Cardinality(Range(cf_loads[3].clusters)) = 2
    /\ cf_writes = 1

----------------------------------------------------------------------------
(* Properties of voc_ap (checked under SpecVocAp) *)

\* recall in ascending order (no NaN among the values)
Ascending(rec) ==
    /\ \A i \in DOMAIN rec : ~rec[i].nan
    /\ \A i \in 1..(Len(rec) - 1) : FLeq(rec[i], rec[i + 1])

\* the largest of the values of a at the positions from..Len(a)
MaxFrom(a, from) ==
    CHOOSE m \in {a[j] : j \in from..Len(a)} : \A j \in from..Len(a) : FLeq(a[j], m)

\* the sum, over the positions k..Len(mrec) - 1 where recall changes, of the
\* recall difference times the largest precision at the higher position or later
RECURSIVE ClosedFormSum(_, _, _)
ClosedFormSum(mrec, mpre0, k) ==
    IF k >= Len(mrec) THEN FNum(0, 1)
    ELSE FAdd(IF mrec[k + 1] # mrec[k]
              THEN FMul(FSub(mrec[k + 1], mrec[k]), MaxFrom(mpre0, k + 1))
              ELSE FNum(0, 1),
              ClosedFormSum(mrec, mpre0, k + 1))

\* C17: on recall in ascending order voc_ap first puts the sentinels
\* (recall 0 and precision 0 in front, recall 1 and precision 0 at the end);
\* after the backward pass each envelope value is the largest precision at
\* its own and all later positions, so the envelope never increases; the
\* result is the sum, over the adjacent positions where recall changes, of
\* the recall difference times the envelope at the higher position.  For
\* recall [0, 1/2, 1] and precision [1, 1/2, 1/2] that sum is 1/2.
C17_EnvelopeAndSum ==
    (va_run # <<>> /\ Ascending(va_rec)) =>
        LET r == va_run[1]
            n == Len(r.mpre)
        IN  /\ r.mrec = <<FNum(0, 1)>> \o va_rec \o <<FNum(1, 1)>>
            /\ r.mpre0 = <<FNum(0, 1)>> \o va_prec \o <<FNum(0, 1)>>
            /\ n = Len(va_prec) + 2
            /\ \A i \in 1..n : r.mpre[i] = MaxFrom(r.mpre0, i)
            /\ \A i \in 1..(n - 1) : FLeq(r.mpre[i + 1], r.mpre[i])
            /\ r.idx = {i \in 1..(n - 1) : r.mrec[i + 1] # r.mrec[i]}
            /\ r.ap = ClosedFormSum(r.mrec, r.mpre0, 1)
            /\ (/\ va_rec = <<FNum(0, 1), FNum(1, 2), FNum(1, 1)>>
                /\ va_prec = <<FNum(1, 1), FNum(1, 2), FNum(1, 2)>>)
               => r.ap = FNum(1, 2)

\* C17 witness: voc_ap has run on ascending recall with a repeated value,
\* the backward pass raised a precision that is not a sentinel, and the
\* result is strictly between 0 and 1
C17_Witness ==
    /\ va_run # <<>>
    /\ Ascending(va_rec)
    /\ \E i \in 2..(Len(va_prec) + 1) : va_run[1].mpre[i] # va_run[1].mpre0[i]
    /\ \E i \in 1..(Len(va_rec) - 1) : va_rec[i] = va_rec[i + 1]
    /\ ~va_run[1].ap.nan
    /\ va_run[1].ap \notin {FNum(0, 1), FNum(1, 1)}

\* C17 witness of the example: recall [0, 1/2, 1], precision [1, 1/2, 1/2]
C17_WitnessExample ==
    /\ va_run # <<>>
    /\ va_rec = <<FNum(0, 1), FNum(1, 2), FNum(1, 1)>>
    /\ va_prec = <<FNum(1, 1), FNum(1, 2), FNum(1, 2)>>
    /\ va_run[1].ap = FNum(1, 2)

====
